---- MODULE Spec2Model ----
(***************************************************************************)
(* A model of the exercise generation and scoring engine of edu.xaostech.io *)
(* (Cloudflare worker): the POST /generate route and generateExercise with *)
(* its cache and backend fallback chain, parseAIResponse, the static       *)
(* fallback generator, determineContentRating and validateAnswer.          *)
(*                                                                         *)
(* Strings the code only compares are TLA+ strings.  Strings the code      *)
(* takes apart (toLowerCase, includes, replace) are looked up in CharTable *)
(* and handled as sequences of one-character strings.                      *)
(***************************************************************************)
EXTENDS Integers, Sequences, FiniteSets, TLC

VARIABLES env, kv, procs, grading, hinting, rateLimitMap, now, limited, admitted

vars == <<env, kv, procs, grading, hinting, rateLimitMap, now, limited, admitted>>

-----------------------------------------------------------------------------
(* JavaScript values *)

Undefined == "undefined"
Null == "null"

\* A JSON value that can stand for an answer: kind is compared before val.
StrV(s) == [kind |-> "string", val |-> <<s>>]
ListV(l) == [kind |-> "list", val |-> l]
UndefV == [kind |-> "undefined", val |-> <<>>]

\* JavaScript truthiness of a string-or-undefined value (x || fallback).
TruthyStr(s) == s # Undefined /\ s # Null /\ s # ""

\* JavaScript truthiness of an answer value: '' is falsy, every array is truthy.
TruthyV(v) ==
  CASE v.kind = "undefined" -> FALSE
    [] v.kind = "string" -> v.val[1] # ""
    [] OTHER -> TRUE

Min(a, b) == IF a <= b THEN a ELSE b
Max(a, b) == IF a >= b THEN a ELSE b

-----------------------------------------------------------------------------
(* Character-level strings *)

age8Plus ==
  << <<"f", "r", "a", "c", "t", "i", "o", "n", "s">>,
     <<"d", "e", "c", "i", "m", "a", "l", "s">>,
     <<"p", "e", "r", "c", "e", "n", "t", "a", "g", "e", "s">>,
     <<"b", "i", "o", "l", "o", "g", "y", " ", "b", "a", "s", "i", "c", "s">>,
     <<"e", "c", "o", "s", "y", "s", "t", "e", "m", "s">>,
     <<"f", "o", "o", "d", " ", "c", "h", "a", "i", "n", "s">>,
     <<"s", "i", "m", "p", "l", "e", " ", "c", "h", "e", "m", "i", "s", "t", "r", "y">>,
     <<"s", "t", "a", "t", "e", "s", " ", "o", "f", " ", "m", "a", "t", "t", "e", "r">>,
     <<"a", "n", "c", "i", "e", "n", "t", " ", "c", "i", "v", "i", "l", "i", "z", "a", "t", "i", "o", "n", "s">>,
     <<"m", "e", "d", "i", "e", "v", "a", "l", " ", "h", "i", "s", "t", "o", "r", "y">>,
     <<"p", "r", "o", "g", "r", "a", "m", "m", "i", "n", "g", " ", "b", "a", "s", "i", "c", "s">>,
     <<"a", "l", "g", "o", "r", "i", "t", "h", "m", "s">> >>

age12Plus ==
  << <<"a", "l", "g", "e", "b", "r", "a">>,
     <<"c", "a", "l", "c", "u", "l", "u", "s", " ", "b", "a", "s", "i", "c", "s">>,
     <<"s", "t", "a", "t", "i", "s", "t", "i", "c", "s">>,
     <<"h", "u", "m", "a", "n", " ", "b", "i", "o", "l", "o", "g", "y">>,
     <<"g", "e", "n", "e", "t", "i", "c", "s">>,
     <<"e", "v", "o", "l", "u", "t", "i", "o", "n">>,
     <<"c", "h", "e", "m", "i", "c", "a", "l", " ", "r", "e", "a", "c", "t", "i", "o", "n", "s">>,
     <<"p", "e", "r", "i", "o", "d", "i", "c", " ", "t", "a", "b", "l", "e">>,
     <<"p", "h", "y", "s", "i", "c", "s">>,
     <<"m", "e", "c", "h", "a", "n", "i", "c", "s">>,
     <<"e", "l", "e", "c", "t", "r", "i", "c", "i", "t", "y">>,
     <<"w", "o", "r", "l", "d", " ", "w", "a", "r", "s">>,
     <<"m", "o", "d", "e", "r", "n", " ", "h", "i", "s", "t", "o", "r", "y">>,
     <<"p", "o", "l", "i", "t", "i", "c", "s">>,
     <<"a", "d", "v", "a", "n", "c", "e", "d", " ", "p", "r", "o", "g", "r", "a", "m", "m", "i", "n", "g">>,
     <<"d", "a", "t", "a", " ", "s", "t", "r", "u", "c", "t", "u", "r", "e", "s">> >>

age16Plus ==
  << <<"a", "d", "v", "a", "n", "c", "e", "d", " ", "c", "a", "l", "c", "u", "l", "u", "s">>,
     <<"d", "i", "f", "f", "e", "r", "e", "n", "t", "i", "a", "l", " ", "e", "q", "u", "a", "t", "i", "o", "n", "s">>,
     <<"o", "r", "g", "a", "n", "i", "c", " ", "c", "h", "e", "m", "i", "s", "t", "r", "y">>,
     <<"b", "i", "o", "c", "h", "e", "m", "i", "s", "t", "r", "y">>,
     <<"q", "u", "a", "n", "t", "u", "m", " ", "p", "h", "y", "s", "i", "c", "s">>,
     <<"n", "u", "c", "l", "e", "a", "r", " ", "p", "h", "y", "s", "i", "c", "s">>,
     <<"c", "o", "n", "t", "r", "o", "v", "e", "r", "s", "i", "a", "l", " ", "h", "i", "s", "t", "o", "r", "y">>,
     <<"g", "e", "n", "o", "c", "i", "d", "e">>,
     <<"t", "e", "r", "r", "o", "r", "i", "s", "m">>,
     <<"p", "h", "i", "l", "o", "s", "o", "p", "h", "y">>,
     <<"e", "t", "h", "i", "c", "s">> >>

CharTable ==
  ("" :> <<>>) @@
  ("ex" :> <<"e", "x">>) @@
  ("any" :> <<"a", "n", "y">>) @@
  ("mathematics" :> <<"m", "a", "t", "h", "e", "m", "a", "t", "i", "c", "s">>) @@
  ("history" :> <<"h", "i", "s", "t", "o", "r", "y">>) @@
  ("astrology" :> <<"a", "s", "t", "r", "o", "l", "o", "g", "y">>) @@
  ("constructor" :> <<"c", "o", "n", "s", "t", "r", "u", "c", "t", "o", "r">>) @@
  ("language" :> <<"l", "a", "n", "g", "u", "a", "g", "e">>) @@
  ("physics" :> <<"p", "h", "y", "s", "i", "c", "s">>) @@
  ("chemistry" :> <<"c", "h", "e", "m", "i", "s", "t", "r", "y">>) @@
  ("biology" :> <<"b", "i", "o", "l", "o", "g", "y">>) @@
  ("geography" :> <<"g", "e", "o", "g", "r", "a", "p", "h", "y">>) @@
  ("computer-science" :> <<"c", "o", "m", "p", "u", "t", "e", "r", "-", "s", "c", "i", "e", "n", "c", "e">>) @@
  ("arithmetic" :> <<"a", "r", "i", "t", "h", "m", "e", "t", "i", "c">>) @@
  ("ancient" :> <<"a", "n", "c", "i", "e", "n", "t">>) @@
  ("algebra" :> <<"a", "l", "g", "e", "b", "r", "a">>) @@
  ("vocabulary" :> <<"v", "o", "c", "a", "b", "u", "l", "a", "r", "y">>) @@
  ("mechanics" :> <<"m", "e", "c", "h", "a", "n", "i", "c", "s">>) @@
  ("organic" :> <<"o", "r", "g", "a", "n", "i", "c">>) @@
  ("genetics" :> <<"g", "e", "n", "e", "t", "i", "c", "s">>) @@
  ("regional" :> <<"r", "e", "g", "i", "o", "n", "a", "l">>) @@
  ("algorithms" :> <<"a", "l", "g", "o", "r", "i", "t", "h", "m", "s">>) @@
  ("beginner" :> <<"b", "e", "g", "i", "n", "n", "e", "r">>) @@
  ("elementary" :> <<"e", "l", "e", "m", "e", "n", "t", "a", "r", "y">>) @@
  ("intermediate" :> <<"i", "n", "t", "e", "r", "m", "e", "d", "i", "a", "t", "e">>) @@
  ("advanced" :> <<"a", "d", "v", "a", "n", "c", "e", "d">>) @@
  ("expert" :> <<"e", "x", "p", "e", "r", "t">>) @@
  ("counting" :> <<"c", "o", "u", "n", "t", "i", "n", "g">>) @@
  ("Basic Algebra" :> <<"B", "a", "s", "i", "c", " ", "A", "l", "g", "e", "b", "r", "a">>) @@
  ("basic-algebra" :> <<"b", "a", "s", "i", "c", "-", "a", "l", "g", "e", "b", "r", "a">>) @@
  ("quantum physics" :> <<"q", "u", "a", "n", "t", "u", "m", " ", "p", "h", "y", "s", "i", "c", "s">>) @@
  ("multiple-choice" :> <<"m", "u", "l", "t", "i", "p", "l", "e", "-", "c", "h", "o", "i", "c", "e">>) @@
  ("fill-blank" :> <<"f", "i", "l", "l", "-", "b", "l", "a", "n", "k">>) @@
  ("proof" :> <<"p", "r", "o", "o", "f">>) @@
  ("calculation" :> <<"c", "a", "l", "c", "u", "l", "a", "t", "i", "o", "n">>) @@
  ("exercise" :> <<"e", "x", "e", "r", "c", "i", "s", "e">>) @@
  ("e1" :> <<"e", "1">>) @@
  ("a" :> <<"a">>) @@
  ("b" :> <<"b">>) @@
  ("Paris" :> <<"P", "a", "r", "i", "s">>) @@
  ("paris" :> <<"p", "a", "r", "i", "s">>) @@
  ("Lutetia" :> <<"L", "u", "t", "e", "t", "i", "a">>) @@
  ("lutetia" :> <<"l", "u", "t", "e", "t", "i", "a">>) @@
  ("3/4" :> <<"3", "/", "4">>) @@
  ("60" :> <<"6", "0">>) @@
  ("60.3" :> <<"6", "0", ".", "3">>) @@
  ("60.7" :> <<"6", "0", ".", "7">>) @@
  ("abc" :> <<"a", "b", "c">>) @@
  ("r1" :> <<"r", "1">>) @@
  ("c" :> <<"c">>) @@
  ("Khufu" :> <<"K", "h", "u", "f", "u">>) @@
  ("groundbreaking" :> <<"g", "r", "o", "u", "n", "d", "b", "r", "e", "a", "k", "i", "n", "g">>) @@
  ("x = 2 or x = 3" :> <<"x", " ", "=", " ", "2", " ", "o", "r", " ", "x", " ", "=", " ", "3">>) @@
  ("60 km/h" :> <<"6", "0", " ", "k", "m", "/", "h">>) @@
  ("geometry" :> <<"g", "e", "o", "m", "e", "t", "r", "y">>) @@
  ("fractions" :> <<"f", "r", "a", "c", "t", "i", "o", "n", "s">>) @@
  ("world-history" :> <<"w", "o", "r", "l", "d", "-", "h", "i", "s", "t", "o", "r", "y">>) @@
  ("ancient-history" :> <<"a", "n", "c", "i", "e", "n", "t", "-", "h", "i", "s", "t", "o", "r", "y">>) @@
  ("grammar" :> <<"g", "r", "a", "m", "m", "a", "r">>) @@
  ("programming" :> <<"p", "r", "o", "g", "r", "a", "m", "m", "i", "n", "g">>) @@
  ("0" :> <<"0">>) @@
  ("1" :> <<"1">>) @@
  ("2" :> <<"2">>) @@
  ("5" :> <<"5">>) @@
  ("-1" :> <<"-", "1">>) @@
  ("-2" :> <<"-", "2">>) @@
  ("null" :> <<"n", "u", "l", "l">>) @@
  ("true" :> <<"t", "r", "u", "e">>) @@
  ("false" :> <<"f", "a", "l", "s", "e">>) @@
  ("[object Object]" :> <<"[", "o", "b", "j", "e", "c", "t", " ", "O", "b", "j", "e", "c", "t", "]">>)

Chars(s) == CharTable[s]

UpperCase == <<"A", "B", "C", "D", "E", "F", "G", "H", "I", "J", "K", "L", "M",
               "N", "O", "P", "Q", "R", "S", "T", "U", "V", "W", "X", "Y", "Z">>
LowerCase == <<"a", "b", "c", "d", "e", "f", "g", "h", "i", "j", "k", "l", "m",
               "n", "o", "p", "q", "r", "s", "t", "u", "v", "w", "x", "y", "z">>
Digits == {"0", "1", "2", "3", "4", "5", "6", "7", "8", "9"}

LowerChar(c) ==
  IF \E i \in 1..Len(UpperCase) : UpperCase[i] = c
  THEN LowerCase[CHOOSE i \in 1..Len(UpperCase) : UpperCase[i] = c]
  ELSE c

\* String.prototype.toLowerCase
toLowerCase(cs) == [i \in 1..Len(cs) |-> LowerChar(cs[i])]

\* String.prototype.includes
includes(cs, t) ==
  \E i \in 0..(Len(cs) - Len(t)) : SubSeq(cs, i + 1, i + Len(t)) = t

-----------------------------------------------------------------------------
(* Subject catalog *)

CatalogSubjects ==
  {"language", "mathematics", "physics", "chemistry", "biology", "history",
   "geography", "computer-science"}

\* Property names an object literal inherits from Object.prototype: a lookup
\* SUBJECT_CONFIGS[name] with one of them yields the inherited member.
ObjectPrototypeKeys ==
  {"constructor", "toString", "valueOf", "hasOwnProperty", "isPrototypeOf"}

CatalogEntry(cat0, pass, cs, tol, pen) ==
  [defined |-> TRUE, catalog |-> TRUE, categories0 |-> cat0,
   passingScore |-> pass, caseSensitive |-> cs, tolerance |-> tol,
   hintPenalty |-> pen]

\* SUBJECT_CONFIGS[subject].  tolerance is in hundredths, 0 when not set.
\* An inherited member has none of the catalog fields; no entry is undefined.
SUBJECT_CONFIGS(subject) ==
  CASE subject = "language" -> CatalogEntry("vocabulary", 70, FALSE, 0, 5)
    [] subject = "mathematics" -> CatalogEntry("arithmetic", 80, FALSE, 1, 10)
    [] subject = "physics" -> CatalogEntry("mechanics", 75, FALSE, 5, 10)
    [] subject = "chemistry" -> CatalogEntry("organic", 75, TRUE, 0, 10)
    [] subject = "biology" -> CatalogEntry("genetics", 70, FALSE, 0, 5)
    [] subject = "history" -> CatalogEntry("ancient", 70, FALSE, 0, 5)
    [] subject = "geography" -> CatalogEntry("regional", 70, FALSE, 0, 5)
    [] subject = "computer-science" -> CatalogEntry("algorithms", 80, TRUE, 0, 10)
    [] subject \in ObjectPrototypeKeys ->
         [defined |-> TRUE, catalog |-> FALSE, categories0 |-> Undefined,
          passingScore |-> 0, caseSensitive |-> FALSE, tolerance |-> 0,
          hintPenalty |-> 0]
    [] OTHER ->
         [defined |-> FALSE, catalog |-> FALSE, categories0 |-> Undefined,
          passingScore |-> 0, caseSensitive |-> FALSE, tolerance |-> 0,
          hintPenalty |-> 0]

-----------------------------------------------------------------------------
(* Content rating classifier *)

MatchesAny(list, lowerTopic, lowerCategory) ==
  \E i \in 1..Len(list) :
    includes(lowerTopic, list[i]) \/ includes(lowerCategory, list[i])

\* A variant that checks the tiers from the least restrictive one on.
determineContentRatingLeastFirst(subject, category, topic) ==
  LET lowerTopic == toLowerCase(Chars(topic))
      lowerCategory == toLowerCase(Chars(category))
  IN  IF MatchesAny(age8Plus, lowerTopic, lowerCategory) THEN "age-8-plus"
      ELSE IF MatchesAny(age12Plus, lowerTopic, lowerCategory) THEN "age-12-plus"
      ELSE IF MatchesAny(age16Plus, lowerTopic, lowerCategory) THEN "age-16-plus"
      ELSE CASE subject \in {"language", "mathematics", "geography"} -> "all-ages"
             [] OTHER -> "age-8-plus"

determineContentRating(subject, category, topic) ==
  LET lowerTopic == toLowerCase(Chars(topic))
      lowerCategory == toLowerCase(Chars(category))
  IN  IF MatchesAny(age16Plus, lowerTopic, lowerCategory) THEN "age-16-plus"
      ELSE IF MatchesAny(age12Plus, lowerTopic, lowerCategory) THEN "age-12-plus"
      ELSE IF MatchesAny(age8Plus, lowerTopic, lowerCategory) THEN "age-8-plus"
      ELSE CASE subject \in {"language", "mathematics", "geography"} -> "all-ages"
             [] subject \in {"biology", "chemistry", "physics", "history"} -> "age-8-plus"
             [] subject = "computer-science" -> "age-8-plus"
             [] OTHER -> "all-ages"

-----------------------------------------------------------------------------
(* Difficulty tables *)

\* A variant that gives the advanced level the points of the elementary one.
getDifficultyPointsDip(difficulty) ==
  CASE difficulty = "beginner" -> 10
    [] difficulty = "elementary" -> 15
    [] difficulty = "intermediate" -> 20
    [] difficulty = "advanced" -> 15
    [] difficulty = "expert" -> 50

getDifficultyPoints(difficulty) ==
  CASE difficulty = "beginner" -> 10
    [] difficulty = "elementary" -> 15
    [] difficulty = "intermediate" -> 20
    [] difficulty = "advanced" -> 30
    [] difficulty = "expert" -> 50

getDefaultTime(difficulty) ==
  CASE difficulty = "beginner" -> 60
    [] difficulty = "elementary" -> 90
    [] difficulty = "intermediate" -> 120
    [] difficulty = "advanced" -> 180
    [] difficulty = "expert" -> 300

-----------------------------------------------------------------------------
(* Backend selection and cache key *)

FastModel == "@cf/meta/llama-3.2-3b-instruct"
QualityModel == "@cf/meta/llama-3.1-8b-instruct-fast"
ReasoningModel == "@cf/qwen/qwq-32b"
LightModel == "@cf/meta/llama-3.2-1b-instruct"

OrElse(s, fallback) == IF TruthyStr(s) THEN s ELSE fallback

\* Array.prototype.includes on request.types (types?.includes(t)).
TypesInclude(types, t) == \E i \in 1..Len(types) : types[i] = t

selectModel(e, request) ==
  IF request.options.model = "reasoning"
    THEN OrElse(e.REASONING_MODEL, ReasoningModel)
  ELSE IF request.options.model = "quality"
    THEN OrElse(e.QUALITY_MODEL, QualityModel)
  ELSE IF /\ request.subject \in {"mathematics", "physics"}
          /\ request.typesGiven
          /\ (TypesInclude(request.types, "proof")
              \/ TypesInclude(request.types, "derivation"))
    THEN OrElse(e.REASONING_MODEL, ReasoningModel)
  ELSE OrElse(e.DEFAULT_MODEL, FastModel)

RECURSIVE join(_, _)
\* Array.prototype.join over character strings.
join(types, sep) ==
  IF Len(types) = 0 THEN <<>>
  ELSE IF Len(types) = 1 THEN Chars(types[1])
  ELSE Chars(types[1]) \o sep \o join(Tail(types), sep)

\* key.replace(/[^a-z0-9:-]/g, '-')
KeyChar(c) ==
  IF (\E i \in 1..Len(LowerCase) : LowerCase[i] = c) \/ c \in Digits \/ c \in {":", "-"}
  THEN c ELSE "-"

getCacheKey(request) ==
  LET typesPart == IF request.typesGiven /\ Len(join(request.types, <<"-">>)) > 0
                   THEN join(request.types, <<"-">>) ELSE Chars("any")
      key == Chars("ex") \o <<":">> \o Chars(request.subject) \o <<":">>
             \o Chars(OrElse(request.category, "any")) \o <<":">>
             \o Chars(request.topic) \o <<":">>
             \o Chars(request.difficulty) \o <<":">> \o typesPart
      lower == toLowerCase(key)
  IN  [i \in 1..Len(lower) |-> KeyChar(lower[i])]

\* A variant that removes nothing.
KeepAll(chain) == chain

\* The fallback chain with duplicates removed (filter keeps first occurrences).
Dedup(chain) ==
  LET keep == {i \in 1..Len(chain) : \A j \in 1..(i - 1) : chain[j] # chain[i]}
      F[k \in 0..Len(chain)] ==
        IF k = 0 THEN <<>>
        ELSE IF k \in keep THEN Append(F[k - 1], chain[k]) ELSE F[k - 1]
  IN  F[Len(chain)]

modelFallbackChain(e, model) ==
  Dedup(<<model, OrElse(e.DEFAULT_MODEL, FastModel), LightModel>>)


\* The exercise types of the schema.
ExerciseTypes ==
  {"multiple-choice", "fill-blank", "matching", "ordering", "true-false",
   "short-answer", "long-answer", "proof", "calculation", "translation",
   "conjugation", "diagram", "coding", "derivation"}
-----------------------------------------------------------------------------
(* Generated text and its parsing *)

Absent == "absent"

NoContent == [present |-> FALSE, type |-> Undefined]
NoSolution == [present |-> FALSE, correctAnswer |-> UndefV, explanation |-> Undefined]
NoHints == [present |-> FALSE, list |-> <<>>]

\* JSON.parse of a text body: whether it parses, and the value it parses to.
\* A value is null or an object; an absent property reads as undefined.
JSONparse(body) ==
  CASE body = "mc" ->
         [ok |-> TRUE, kind |-> "object", instruction |-> "Pick one",
          content |-> [present |-> TRUE, type |-> "multiple-choice"],
          context |-> Undefined,
          solution |-> [present |-> TRUE, correctAnswer |-> StrV("b"),
                        explanation |-> "because"],
          hints |-> [present |-> TRUE, list |-> <<"h1", "h2">>],
          contentRating |-> "all-ages", estimatedTime |-> 45]
    [] body = "fb" ->
         [ok |-> TRUE, kind |-> "object", instruction |-> "Fill in",
          content |-> [present |-> TRUE, type |-> "fill-blank"],
          context |-> "ctx",
          solution |-> [present |-> TRUE, correctAnswer |-> ListV(<<"3/4">>),
                        explanation |-> Undefined],
          hints |-> NoHints,
          contentRating |-> "adult", estimatedTime |-> 0]
    [] body = "nosolution" ->
         [ok |-> TRUE, kind |-> "object", instruction |-> "Pick one",
          content |-> [present |-> TRUE, type |-> "multiple-choice"],
          context |-> Undefined, solution |-> NoSolution,
          hints |-> [present |-> TRUE, list |-> <<"h1">>],
          contentRating |-> Undefined, estimatedTime |-> 0]
    [] body = "crossword" ->
         [ok |-> TRUE, kind |-> "object", instruction |-> "Solve",
          content |-> [present |-> TRUE, type |-> "crossword"],
          context |-> Undefined,
          solution |-> [present |-> TRUE, correctAnswer |-> StrV("b"),
                        explanation |-> Undefined],
          hints |-> NoHints, contentRating |-> Undefined, estimatedTime |-> 0]
    [] body = "emptyobject" ->
         [ok |-> TRUE, kind |-> "object", instruction |-> Undefined,
          content |-> NoContent, context |-> Undefined, solution |-> NoSolution,
          hints |-> NoHints, contentRating |-> Undefined, estimatedTime |-> 0]
    [] body = "jsonnull" ->
         [ok |-> TRUE, kind |-> "null", instruction |-> Undefined,
          content |-> NoContent, context |-> Undefined, solution |-> NoSolution,
          hints |-> NoHints, contentRating |-> Undefined, estimatedTime |-> 0]
    [] OTHER ->
         [ok |-> FALSE, kind |-> "none", instruction |-> Undefined,
          content |-> NoContent, context |-> Undefined, solution |-> NoSolution,
          hints |-> NoHints, contentRating |-> Undefined, estimatedTime |-> 0]

\* The code-block markers: three backquotes, with and without the json tag.
Fence == "[fence]"
FenceJson == "[fence]json"

\* A response text: leading fence markers, a body, trailing fence markers.
PlainText(body) == [head |-> <<>>, body |-> body, tail |-> <<>>]
FencedText(body) == [head |-> <<FenceJson>>, body |-> body, tail |-> <<Fence>>]
OpenFenceText(body) == [head |-> <<Fence>>, body |-> body, tail |-> <<>>]

\* !responseText
EmptyText(text) == text.head = <<>> /\ text.body = "" /\ text.tail = <<>>

\* The clean-up of parseAIResponse: one leading json fence, then one leading fence,
\* then one trailing fence are sliced off.
StripFences(text) ==
  LET h1 == IF Len(text.head) > 0 /\ text.head[1] = FenceJson
            THEN Tail(text.head) ELSE text.head
      h2 == IF Len(h1) > 0 /\ h1[1] = Fence THEN Tail(h1)
            ELSE IF Len(h1) > 0 /\ h1[1] = FenceJson THEN <<"json">> \o Tail(h1)
            ELSE h1
      t1 == IF Len(text.tail) > 0 /\ text.tail[Len(text.tail)] = Fence
            THEN SubSeq(text.tail, 1, Len(text.tail) - 1) ELSE text.tail
  IN  [head |-> h2, body |-> text.body, tail |-> t1]

\* A variant that trusts the rating the generated payload declares for itself.
declaredContentRating(parsed, request, category) ==
  OrElse(parsed.contentRating,
         determineContentRating(request.subject, category, request.topic))

\* metadata.contentRating of a parsed exercise: computed from the request,
\* the payload is not consulted.
parsedContentRating(parsed, request, category) ==
  determineContentRating(request.subject, category, request.topic)

\* parseAIResponse: <<exercise>>, or << >> for null.  id is the value
\* generateExerciseId draws.  The optional properties the code does not set
\* (validation.alternatives, validation.timePenalty, problem.timeLimit) read
\* as undefined: an empty list and 0 stand for that.
parseAIResponse(response, request, subjectConfig, model, id) ==
  LET clean == StripFences(response)
      parsed == JSONparse(clean.body)
      category == OrElse(request.category, subjectConfig.categories0)
  IN  IF clean.head # <<>> \/ clean.tail # <<>> \/ ~parsed.ok THEN <<>>
      ELSE IF parsed.kind = "null" THEN <<>>
      ELSE IF ~subjectConfig.catalog THEN <<>>
      ELSE
        <<[id |-> id,
           subject |-> request.subject,
           category |-> category,
           difficulty |-> request.difficulty,
           type |-> OrElse(parsed.content.type, "short-answer"),
           topic |-> request.topic,
           problem |-> [instruction |-> OrElse(parsed.instruction,
                                               "Complete the exercise below."),
                        content |-> parsed.content,
                        context |-> parsed.context,
                        maxPoints |-> getDifficultyPoints(request.difficulty),
                        timeLimit |-> 0],
           solution |-> [correctAnswer |-> IF TruthyV(parsed.solution.correctAnswer)
                                           THEN parsed.solution.correctAnswer
                                           ELSE StrV(""),
                         explanation |-> OrElse(parsed.solution.explanation, "")],
           hints |-> IF parsed.hints.present THEN parsed.hints.list ELSE <<>>,
           validation |-> [passingScore |-> IF subjectConfig.passingScore # 0
                                            THEN subjectConfig.passingScore ELSE 70,
                           allowPartialCredit |-> TRUE,
                           caseSensitive |-> subjectConfig.caseSensitive,
                           tolerance |-> subjectConfig.tolerance,
                           alternatives |-> <<>>,
                           hintPenalty |-> IF subjectConfig.hintPenalty # 0
                                           THEN subjectConfig.hintPenalty ELSE 5,
                           timePenalty |-> 0],
           metadata |-> [generatedBy |-> model,
                         contentRating |->
                           parsedContentRating(parsed, request, category),
                         estimatedTime |-> IF parsed.estimatedTime # 0
                                           THEN parsed.estimatedTime
                                           ELSE getDefaultTime(request.difficulty)]]>>

\* generateFallbackExercise throws when it reads categories[0] of a
\* configuration that has no categories.
FallbackThrows(request, subjectConfig) ==
  ~TruthyStr(request.category) /\ ~subjectConfig.catalog

generateFallbackExercise(request, subjectConfig, id) ==
  LET category == OrElse(request.category, subjectConfig.categories0)
  IN  [id |-> id,
       subject |-> request.subject,
       category |-> category,
       difficulty |-> request.difficulty,
       type |-> "multiple-choice",
       topic |-> request.topic,
       problem |-> [instruction |-> "Select the correct answer.",
                    content |-> [present |-> TRUE, type |-> "multiple-choice"],
                    context |-> Absent,
                    maxPoints |-> getDifficultyPoints(request.difficulty),
                    timeLimit |-> 0],
       solution |-> [correctAnswer |-> StrV("a"),
                     explanation |-> "This is a fallback exercise."],
       hints |-> <<"Try refreshing the page",
                   "AI service may be temporarily unavailable">>,
       validation |-> [passingScore |-> 70,
                       allowPartialCredit |-> TRUE,
                       caseSensitive |-> FALSE,
                       tolerance |-> subjectConfig.tolerance,
                       alternatives |-> <<>>,
                       hintPenalty |-> 5,
                       timePenalty |-> 0],
       metadata |-> [generatedBy |-> "fallback",
                     contentRating |->
                       determineContentRating(request.subject, category,
                                              request.topic),
                     estimatedTime |-> getDefaultTime(request.difficulty)]]

\* JSON.stringify of an exercise: a property whose value is undefined is left
\* out of the text.  JSON.parse of that text gives the object back.
JSONstringify(exercise) ==
  [exercise EXCEPT !.problem.context =
     IF @ = Undefined THEN Absent ELSE @]

JSONparseExercise(text) == text

-----------------------------------------------------------------------------
(* Requests, responses and the state of one request handler *)

\* parseInt of an environment string; 0 stands for NaN (parseInt(x) || d
\* treats NaN and 0 alike).
parseInt(s) ==
  CASE s = "1" -> 1
    [] s = "2" -> 2
    [] s = "3" -> 3
    [] OTHER -> 0

DefaultMaxExercises == 10

\* A variant that ignores the configured maximum.
MaxExercisesDefault(e) == DefaultMaxExercises

\* parseInt(env.MAX_EXERCISES_PER_REQUEST) || 10
MaxExercisesPerRequest(e) ==
  IF parseInt(e.MAX_EXERCISES_PER_REQUEST) # 0
  THEN parseInt(e.MAX_EXERCISES_PER_REQUEST) ELSE DefaultMaxExercises

NoRequest ==
  [subject |-> Undefined, category |-> Undefined, topic |-> Undefined,
   difficulty |-> Undefined, typesGiven |-> FALSE, types |-> <<>>,
   count |-> 0, options |-> [model |-> Undefined]]

NoMeta == [model |-> "", cached |-> FALSE, warning |-> FALSE]
NoResponse == [status |-> 0, exercises |-> <<>>, meta |-> NoMeta, error |-> ""]

IdleProc ==
  [pc |-> "idle", request |-> NoRequest, count |-> 0, model |-> "",
   aiError |-> Null, exercises |-> <<>>, i |-> 0, chainIdx |-> 0,
   kvReads |-> 0, kvWrites |-> 0, aiCalls |-> <<>>,
   response |-> NoResponse]

\* c.json({error}, 400) of the route's validation.
BadRequest(message) ==
  [IdleProc EXCEPT !.pc = "done",
                   !.response = [NoResponse EXCEPT !.status = 400,
                                                   !.error = message]]

\* generateExercise throws; the route's catch answers 500.
Thrown(st, message) ==
  [st EXCEPT !.pc = "done",
             !.response = [NoResponse EXCEPT !.status = 500, !.error = message]]

\* The return statement at the end of generateExercise and the route's c.json.
Finish(st) ==
  IF Len(st.exercises) = 0
  THEN Thrown(st, "Failed to generate exercises")
  ELSE [st EXCEPT
          !.pc = "done",
          !.response =
            [status |-> 200,
             exercises |-> st.exercises,
             meta |-> [model |-> st.model,
                       cached |-> FALSE,
                       warning |->
                         /\ TruthyStr(st.aiError)
                         /\ \E k \in 1..Len(st.exercises) :
                              st.exercises[k].metadata.generatedBy = "fallback"],
             error |-> ""]]

\* buildGenerationPrompt throws when it reads supportedTypes.slice of a
\* configuration without supportedTypes and the request names no types.
PromptThrows(request, subjectConfig) ==
  /\ ~(request.typesGiven /\ Len(join(request.types, <<",", " ">>)) > 0)
  /\ ~subjectConfig.catalog

Chain(e, st) == modelFallbackChain(e, selectModel(e, st.request))

RECURSIVE RunUnits(_, _, _)
\* The for loop over the units from st.i on, up to the next await of AI.run
\* or to the end of generateExercise.  ids[k] is the identifier drawn for
\* the k-th unit.
RunUnits(e, st, ids) ==
  LET cfg == SUBJECT_CONFIGS(st.request.subject) IN
  IF ~(st.i < st.count) THEN Finish(st)
  ELSE IF PromptThrows(st.request, cfg) THEN Thrown(st, "TypeError")
  ELSE IF e.AI
    THEN [st EXCEPT !.pc = "aiRun", !.chainIdx = 1,
                    !.aiCalls = Append(@, <<st.i, Chain(e, st)[1]>>)]
  ELSE IF FallbackThrows(st.request, cfg) THEN Thrown(st, "TypeError")
  ELSE RunUnits(e,
                [st EXCEPT !.exercises =
                             Append(@, generateFallbackExercise(st.request, cfg,
                                                                ids[st.i + 1])),
                           !.i = @ + 1],
                ids)

\* From the cache miss on: the AI binding check, then the loop.
AfterCache(e, st, ids) ==
  RunUnits(e,
           IF ~e.AI
           THEN [st EXCEPT !.aiError = "AI binding not configured - check wrangler.toml"]
           ELSE st,
           ids)

\* generateExercise up to its first await.
generateExerciseStart(e, request, ids) ==
  LET cfg == SUBJECT_CONFIGS(request.subject)
      count == Min(IF request.count # 0 THEN request.count ELSE 1,
                   MaxExercisesPerRequest(e))
      st == [IdleProc EXCEPT !.request = request, !.count = count,
                             !.model = selectModel(e, request)]
  IN  IF ~cfg.defined THEN Thrown(st, "Unsupported subject")
      ELSE IF e.KV THEN [st EXCEPT !.pc = "cacheGet", !.kvReads = @ + 1]
      ELSE AfterCache(e, st, ids)

\* The POST /generate route up to the first await of generateExercise.
\* body.count is 0 when the body gives none (body.count || 1).
generateRoute(e, body, ids) ==
  IF ~TruthyStr(body.subject) \/ ~TruthyStr(body.topic)
    THEN BadRequest("subject and topic are required")
  ELSE IF ~SUBJECT_CONFIGS(body.subject).defined
    THEN BadRequest("Invalid subject")
  ELSE generateExerciseStart(
         e,
         [body EXCEPT !.difficulty = OrElse(@, "intermediate"),
                      !.count = IF @ # 0 THEN @ ELSE 1],
         ids)

\* The value cached for a key: <<text>>, or << >> when there is none.
KVget(store, key) == IF key \in DOMAIN store THEN store[key] ELSE <<>>

\* A variant of the lookup that treats every read as a miss.
afterCacheGetMiss(e, store, st, outcome, ids) == AfterCache(e, st, ids)

\* After `await EXERCISES_KV.get(cacheKey)`: outcome "throw" is a failed read.
afterCacheGet(e, store, st, outcome, ids) ==
  LET cached == KVget(store, getCacheKey(st.request)) IN
  IF outcome # "throw" /\ cached # <<>> /\ st.count = 1
  THEN [st EXCEPT
          !.pc = "done",
          !.response = [status |-> 200,
                        exercises |-> <<JSONparseExercise(cached[1])>>,
                        meta |-> [model |-> st.model, cached |-> TRUE,
                                  warning |-> FALSE],
                        error |-> ""]]
  ELSE AfterCache(e, st, ids)

\* The unit is produced: i++ and on with the loop.
UnitDone(e, st, id) ==
  RunUnits(e, [st EXCEPT !.i = @ + 1], [k \in 1..(st.i + 2) |-> id])

\* A variant that goes from any member of the chain straight to the last one.
AdvanceSkipping(e, st, id) ==
  LET cfg == SUBJECT_CONFIGS(st.request.subject)
      chain == Chain(e, st)
  IN  IF st.chainIdx < Len(chain)
      THEN [st EXCEPT !.chainIdx = Len(chain),
                      !.aiCalls = Append(@, <<st.i, chain[Len(chain)]>>)]
      ELSE IF FallbackThrows(st.request, cfg) THEN Thrown(st, "TypeError")
      ELSE UnitDone(e,
                    [st EXCEPT !.exercises =
                       Append(@, generateFallbackExercise(st.request, cfg, id))],
                    id)

\* The next member of the chain, or the fallback exercise when there is none.
Advance(e, st, id) ==
  LET cfg == SUBJECT_CONFIGS(st.request.subject)
      chain == Chain(e, st)
  IN  IF st.chainIdx < Len(chain)
      THEN [st EXCEPT !.chainIdx = @ + 1,
                      !.aiCalls = Append(@, <<st.i, chain[st.chainIdx + 1]>>)]
      ELSE IF FallbackThrows(st.request, cfg) THEN Thrown(st, "TypeError")
      ELSE UnitDone(e,
                    [st EXCEPT !.exercises =
                       Append(@, generateFallbackExercise(st.request, cfg, id))],
                    id)

\* A variant that caches the parsed exercise whatever the count is.
afterAIRunAnyCount(e, st, outcome, id) ==
  LET cfg == SUBJECT_CONFIGS(st.request.subject)
      currentModel == Chain(e, st)[st.chainIdx]
      exercise == parseAIResponse(outcome.text, st.request, cfg, currentModel, id)
  IN  IF outcome.kind = "throw"
        THEN Advance(e, [st EXCEPT !.aiError = outcome.message], id)
      ELSE IF EmptyText(outcome.text) \/ exercise = <<>>
        THEN Advance(e, st, id)
      ELSE LET st1 == [st EXCEPT !.exercises = Append(@, exercise[1]),
                                 !.model = currentModel]
           IN  IF e.KV
               THEN [st1 EXCEPT !.pc = "cachePut", !.kvWrites = @ + 1]
               ELSE UnitDone(e, st1, id)

\* After `await env.AI.run(currentModel, ...)`.
afterAIRun(e, st, outcome, id) ==
  LET cfg == SUBJECT_CONFIGS(st.request.subject)
      currentModel == Chain(e, st)[st.chainIdx]
      exercise == parseAIResponse(outcome.text, st.request, cfg, currentModel, id)
  IN  IF outcome.kind = "throw"
        THEN Advance(e, [st EXCEPT !.aiError = outcome.message], id)
      ELSE IF EmptyText(outcome.text)
        THEN Advance(e, st, id)
      ELSE IF exercise # <<>>
        THEN LET st1 == [st EXCEPT !.exercises = Append(@, exercise[1]),
                                   !.model = currentModel]
             IN  IF st.count = 1 /\ e.KV
                 THEN [st1 EXCEPT !.pc = "cachePut", !.kvWrites = @ + 1]
                 ELSE UnitDone(e, st1, id)
      ELSE Advance(e, st, id)

\* A variant of the cache write that keeps an entry already stored.
cachePutIfAbsent(store, key, value) ==
  IF key \in DOMAIN store THEN store ELSE (key :> <<value>>) @@ store

\* EXERCISES_KV.put(key, value, ...): the entry under the key is replaced.
cachePut(store, key, value) == (key :> <<value>>) @@ store

\* A variant in which a failed cache write fails the request.
afterCachePutFailing(e, st, outcome) ==
  IF outcome = "throw" THEN Thrown(st, "KV put failed") ELSE UnitDone(e, st, "")

\* After `await EXERCISES_KV.put(...)`, failed or not: generated is set, so
\* the chain loop breaks and the unit is done.
afterCachePut(e, st, outcome) == UnitDone(e, st, "")

-----------------------------------------------------------------------------
(* Inputs *)

\* The random suffixes generateExerciseId can draw.
Suffixes == {"r1"}

BodySubjects == {Undefined, "mathematics", "astrology", "constructor"}
BodyTopics == {Undefined, "Basic Algebra"}
BodyCategories == {Undefined}
BodyDifficulties == {Undefined}
BodyCounts == {0, -1, 2, 3}
BodyModels == {Undefined, "quality"}

Bodies ==
  {[subject |-> s, category |-> c, topic |-> t, difficulty |-> d,
    typesGiven |-> FALSE, types |-> <<>>, count |-> n,
    options |-> [model |-> m]] :
     s \in BodySubjects, c \in BodyCategories, t \in BodyTopics,
     d \in BodyDifficulties, n \in BodyCounts, m \in BodyModels}

Texts ==
  {PlainText(""), PlainText("garbage"), PlainText("jsonnull"), PlainText("emptyobject"),
   PlainText("crossword"),
   PlainText("nosolution"), FencedText("mc"), OpenFenceText("fb")}

ErrorMessages == {"rate limit exceeded", "internal error"}

AIOutcomes ==
  {[kind |-> "text", text |-> t, message |-> ""] : t \in Texts}
  \cup {[kind |-> "throw", text |-> PlainText(""), message |-> m] :
          m \in ErrorMessages}

KVOutcomes == {"ok", "throw"}

\* <<DEFAULT_MODEL, QUALITY_MODEL>> of the environment.
EnvModels ==
  {<<Undefined, Undefined>>, <<LightModel, Undefined>>, <<Undefined, LightModel>>}

EnvConfigs ==
  {[AI |-> a, KV |-> k, MAX_EXERCISES_PER_REQUEST |-> "2",
    DEFAULT_MODEL |-> m[1], QUALITY_MODEL |-> m[2],
    REASONING_MODEL |-> Undefined,
    RATE_LIMIT_PER_MINUTE |-> Undefined] :
     a \in BOOLEAN, k \in BOOLEAN, m \in EnvModels}
  \cup {[AI |-> TRUE, KV |-> FALSE, MAX_EXERCISES_PER_REQUEST |-> x,
          DEFAULT_MODEL |-> Undefined, QUALITY_MODEL |-> Undefined,
          REASONING_MODEL |-> Undefined,
          RATE_LIMIT_PER_MINUTE |-> Undefined] : x \in {Undefined, "abc"}}

Procs == {1}

-----------------------------------------------------------------------------
(* The state machine of the generation endpoint *)

NoGrading == <<>>

\* No hint was served yet.
NoHinting == [revealed |-> 0, response |-> <<>>]

\* The rate limiter after construction: new Map(), and no request in it.
\* admitted is the history of the current window of each client: when it
\* was opened and how many requests were let through in it.
NoLimited == <<>>

LimiterIdle ==
  /\ rateLimitMap = <<>>
  /\ now = 0
  /\ limited = NoLimited
  /\ admitted = <<>>

Init ==
  /\ env \in EnvConfigs
  /\ kv = <<>>
  /\ procs = [p \in Procs |-> IdleProc]
  /\ grading = NoGrading
  /\ hinting = NoHinting
  /\ LimiterIdle

\* A POST /generate request arrives and runs to its first await or its answer.
Receive(p, body) ==
  /\ procs[p].pc \in {"idle", "done"}
  /\ \E ids \in [1..Max(1, Min(body.count, MaxExercisesPerRequest(env))) -> Suffixes] :
       procs' = [procs EXCEPT ![p] = generateRoute(env, body, ids)]
  /\ UNCHANGED <<env, kv, grading, hinting, rateLimitMap, now, limited, admitted>>

\* EXERCISES_KV.get returns or fails.
CacheGetReturn(p, outcome) ==
  /\ procs[p].pc = "cacheGet"
  /\ \E ids \in [1..Max(1, procs[p].count) -> Suffixes] :
       procs' = [procs EXCEPT ![p] = afterCacheGet(env, kv, procs[p], outcome, ids)]
  /\ UNCHANGED <<env, kv, grading, hinting, rateLimitMap, now, limited, admitted>>

\* env.AI.run returns a text or throws.
AIRunReturn(p, outcome) ==
  /\ procs[p].pc = "aiRun"
  /\ \E id \in Suffixes :
       procs' = [procs EXCEPT ![p] = afterAIRun(env, procs[p], outcome, id)]
  /\ UNCHANGED <<env, kv, grading, hinting, rateLimitMap, now, limited, admitted>>

\* EXERCISES_KV.put stores the exercise, or fails and stores nothing.
CachePutReturn(p, outcome) ==
  /\ procs[p].pc = "cachePut"
  /\ kv' = IF outcome = "throw" THEN kv
           ELSE cachePut(kv, getCacheKey(procs[p].request),
                         JSONstringify(procs[p].exercises[Len(procs[p].exercises)]))
  /\ procs' = [procs EXCEPT ![p] = afterCachePut(env, procs[p], outcome)]
  /\ UNCHANGED <<env, grading, hinting, rateLimitMap, now, limited, admitted>>

Next ==
  \E p \in Procs :
    \/ \E body \in Bodies : Receive(p, body)
    \/ \E outcome \in KVOutcomes : CacheGetReturn(p, outcome)
    \/ \E outcome \in AIOutcomes : AIRunReturn(p, outcome)
    \/ \E outcome \in KVOutcomes : CachePutReturn(p, outcome)

Spec == Init /\ [][Next]_vars

-----------------------------------------------------------------------------
(* Scoring: validateAnswer *)

BoolsV(l) == [kind |-> "bools", val |-> l]
MapV(m) == [kind |-> "map", val |-> m]
NullV == [kind |-> "null", val |-> <<>>]
\* A number, in thousandths.
NumV(n) == [kind |-> "number", val |-> <<n>>]
\* The object {value, tolerance}, both in thousandths.
TolV(value, tolerance) == [kind |-> "tolerance", val |-> <<value, tolerance>>]

\* Array.isArray
IsArray(v) == v.kind \in {"list", "bools"}

\* a === b of two JSON values: objects and arrays are never identical.
StrictEq(a, b) ==
  /\ a.kind = b.kind
  /\ a.kind \in {"string", "number", "null"}
  /\ a.val = b.val

\* A score as the code holds it before rounding: NaN, or the exact quotient
\* num / den.  The inputs of the model are chosen so that every rounding and
\* comparison of the IEEE double the code holds has the exact quotient's outcome.
NaNScore == [nan |-> TRUE, num |-> 0, den |-> 1]
Score(n) == [nan |-> FALSE, num |-> n, den |-> 1]

\* (correct / total) * 100, which is NaN for 0 / 0.
Ratio(correct, total) ==
  IF total = 0 THEN NaNScore
  ELSE [nan |-> FALSE, num |-> correct * 100, den |-> total]

\* Math.max(0, score - amount); NaN stays NaN.
SubMax0(score, amount) ==
  IF score.nan THEN score
  ELSE [score EXCEPT !.num = Max(0, score.num - amount * score.den)]

\* A number of a result: NaN or an integer.
NaNNumber == [nan |-> TRUE, val |-> 0]
Number(n) == [nan |-> FALSE, val |-> n]

\* Math.round(score * factor / 100): half-way cases go up.
RoundScaled(score, factor) ==
  IF score.nan THEN NaNNumber
  ELSE Number((2 * score.num * factor + 100 * score.den) \div (200 * score.den))

DigitValue(c) ==
  CASE c = "0" -> 0 [] c = "1" -> 1 [] c = "2" -> 2 [] c = "3" -> 3
    [] c = "4" -> 4 [] c = "5" -> 5 [] c = "6" -> 6 [] c = "7" -> 7
    [] c = "8" -> 8 [] c = "9" -> 9

\* The longest prefix of cs made of digits.
DigitPrefix(cs) ==
  LET n == CHOOSE k \in 0..Len(cs) :
             /\ \A i \in 1..k : cs[i] \in Digits
             /\ (k = Len(cs) \/ cs[k + 1] \notin Digits)
  IN  SubSeq(cs, 1, n)

RECURSIVE DigitsValue(_)
DigitsValue(ds) ==
  IF Len(ds) = 0 THEN 0
  ELSE 10 * DigitsValue(SubSeq(ds, 1, Len(ds) - 1)) + DigitValue(ds[Len(ds)])

\* parseFloat of an unsigned decimal text, in thousandths: the longest
\* prefix digits[.digits] is read, the rest ignored; NaN when there is none.
parseFloatChars(cs) ==
  LET whole == DigitPrefix(cs)
      rest == SubSeq(cs, Len(whole) + 1, Len(cs))
      frac == IF Len(rest) > 0 /\ rest[1] = "."
              THEN DigitPrefix(Tail(rest)) ELSE <<>>
      frac3 == SubSeq(frac \o <<"0", "0", "0">>, 1, 3)
  IN  IF Len(whole) = 0 /\ Len(frac) = 0 THEN NaNNumber
      ELSE Number(1000 * DigitsValue(whole) + DigitsValue(frac3))

RECURSIVE joinBools(_)
joinBools(l) ==
  IF Len(l) = 0 THEN <<>>
  ELSE (IF l[1] THEN Chars("true") ELSE Chars("false"))
       \o (IF Len(l) = 1 THEN <<>> ELSE <<",">> \o joinBools(Tail(l)))

\* String(v) of a JSON value that is no number.
ToStringChars(v) ==
  CASE v.kind = "string" -> Chars(v.val[1])
    [] v.kind = "list" -> join(v.val, <<",">>)
    [] v.kind = "bools" -> joinBools(v.val)
    [] v.kind = "null" -> Chars("null")
    [] v.kind \in {"map", "tolerance"} -> Chars("[object Object]")

\* parseFloat(userAnswer): the argument is converted to a string first.
parseFloatV(v) ==
  IF v.kind = "number" THEN Number(v.val[1]) ELSE parseFloatChars(ToStringChars(v))

Abs(n) == IF n < 0 THEN -n ELSE n

\* validation.alternatives?.includes(given)
AlternativesInclude(alternatives, given) ==
  \E j \in 1..Len(alternatives) : Chars(alternatives[j]) = given

Outcome(score) == [threw |-> FALSE, score |-> score]
TypeErrorOutcome == [threw |-> TRUE, score |-> NaNScore]

\* case 'fill-blank'
fillBlankScore(correctAnswers, userAnswers, validation) ==
  LET n == Len(correctAnswers.val)
      \* userAnswers[i] || '' of a boolean array is true for a true element.
      isTrue(i) == userAnswers.kind = "bools" /\ i <= Len(userAnswers.val)
                   /\ userAnswers.val[i]
      givenRaw(i) == IF userAnswers.kind = "list" /\ i <= Len(userAnswers.val)
                     THEN Chars(userAnswers.val[i]) ELSE <<>>
      expected(i) == IF validation.caseSensitive THEN Chars(correctAnswers.val[i])
                     ELSE toLowerCase(Chars(correctAnswers.val[i]))
      given(i) == IF validation.caseSensitive THEN givenRaw(i)
                  ELSE toLowerCase(givenRaw(i))
      hit(i) == ~isTrue(i)
                /\ (expected(i) = given(i)
                    \/ AlternativesInclude(validation.alternatives, given(i)))
  IN  IF ~validation.caseSensitive /\ \E i \in 1..n : isTrue(i)
      THEN TypeErrorOutcome
      ELSE Outcome(Ratio(Cardinality({i \in 1..n : hit(i)}), n))

\* case 'calculation'
calculationScore(correctValue, userAnswer, validation) ==
  LET userValue == parseFloatV(userAnswer)
      \* validation.tolerance || 0.01, in hundredths
      tolerance == IF validation.tolerance # 0 THEN validation.tolerance ELSE 1
  IN  CASE correctValue.kind = "number" ->
             Outcome(IF /\ ~userValue.nan
                        /\ 100 * Abs(correctValue.val[1] - userValue.val)
                             <= tolerance * Abs(correctValue.val[1])
                     THEN Score(100) ELSE Score(0))
        [] correctValue.kind = "tolerance" ->
             Outcome(IF /\ ~userValue.nan
                        /\ Abs(correctValue.val[1] - userValue.val)
                             <= correctValue.val[2]
                     THEN Score(100) ELSE Score(0))
        [] correctValue.kind = "null" -> TypeErrorOutcome
        [] OTHER -> Outcome(Score(0))

\* case 'true-false'
trueFalseScore(correctAnswers, userAnswers) ==
  LET n == Len(correctAnswers.val)
      hit(i) == /\ correctAnswers.kind = userAnswers.kind
                /\ i <= Len(userAnswers.val)
                /\ correctAnswers.val[i] = userAnswers.val[i]
  IN  Outcome(Ratio(Cardinality({i \in 1..n : hit(i)}), n))

\* case 'matching', for a correct answer that is an object or the empty string
matchingScore(correctMatches, userMatches) ==
  LET keys == CASE correctMatches.kind = "map" -> DOMAIN correctMatches.val
                [] correctMatches.kind = "string" /\ correctMatches.val[1] = "" -> {}
      hit(key) == /\ userMatches.kind = "map"
                  /\ key \in DOMAIN userMatches.val
                  /\ userMatches.val[key] = correctMatches.val[key]
  IN  IF keys # {} /\ userMatches.kind = "null"
      THEN TypeErrorOutcome
      ELSE Outcome(Ratio(Cardinality({key \in keys : hit(key)}), Cardinality(keys)))

\* default: text comparison
textScore(correctAnswer, userAnswer, validation) ==
  LET correctText == ToStringChars(correctAnswer)
      userText == ToStringChars(userAnswer)
      expected == IF validation.caseSensitive THEN correctText
                  ELSE toLowerCase(correctText)
      given == IF validation.caseSensitive THEN userText ELSE toLowerCase(userText)
      alt(j) == IF validation.caseSensitive THEN Chars(validation.alternatives[j])
                ELSE toLowerCase(Chars(validation.alternatives[j]))
  IN  Outcome(IF expected = given THEN Score(100)
              ELSE IF \E j \in 1..Len(validation.alternatives) : alt(j) = given
                THEN Score(100)
              ELSE Score(0))

\* The switch on exercise.type.
typeScore(exercise, userAnswer) ==
  LET correct == exercise.solution.correctAnswer
      validation == exercise.validation
  IN  CASE exercise.type = "multiple-choice" ->
             Outcome(IF StrictEq(userAnswer, correct) THEN Score(100) ELSE Score(0))
        [] exercise.type = "fill-blank" ->
             IF IsArray(correct) /\ IsArray(userAnswer)
             THEN fillBlankScore(correct, userAnswer, validation)
             ELSE Outcome(Score(0))
        [] exercise.type = "calculation" ->
             calculationScore(correct, userAnswer, validation)
        [] exercise.type = "true-false" ->
             IF IsArray(correct) /\ IsArray(userAnswer)
             THEN trueFalseScore(correct, userAnswer)
             ELSE Outcome(Score(0))
        [] exercise.type = "matching" -> matchingScore(correct, userAnswer)
        [] OTHER -> textScore(correct, userAnswer, validation)

\* A variant that adds the hint penalty instead of taking it off.
applyHintBonus(score, hintsUsed, validation) ==
  SubMax0(score, -(hintsUsed * validation.hintPenalty))

\* The score once the hint penalty is taken off.
applyHintPenalty(score, hintsUsed, validation) ==
  SubMax0(score, hintsUsed * validation.hintPenalty)

\* The score once the time penalty is taken off, when there is one.
applyTimePenalty(score, timeTaken, exercise) ==
  IF /\ exercise.validation.timePenalty # 0
     /\ exercise.problem.timeLimit # 0
     /\ timeTaken > exercise.problem.timeLimit
  THEN SubMax0(score,
               (timeTaken - exercise.problem.timeLimit)
                 * exercise.validation.timePenalty)
  ELSE score

\* The score validateAnswer holds when it computes passed and pointsEarned.
adjustedScore(exercise, userAnswer, hintsUsed, timeTaken) ==
  applyTimePenalty(
    applyHintPenalty(typeScore(exercise, userAnswer).score, hintsUsed,
                     exercise.validation),
    timeTaken, exercise)

\* The feedback text the switch on exercise.type leaves, as the list of its
\* pieces, for the outcome the switch computed.  The number of right items
\* the loops of the list types count is 0 for an empty list.
typeFeedback(exercise, userAnswer, outcome) ==
  LET correct == exercise.solution.correctAnswer
      correctText == ToStringChars(correct)
      counted == IF outcome.score.nan THEN 0 ELSE outcome.score.num \div 100
      full == outcome.score = Score(100)
  IN  CASE exercise.type = "multiple-choice" ->
             IF full THEN <<"Correct!">>
             ELSE <<"Incorrect. The correct answer was: ">> \o correctText
        [] exercise.type = "fill-blank" \/ exercise.type = "true-false" ->
             IF IsArray(correct) /\ IsArray(userAnswer)
             THEN <<"You got ", ToString(counted), " out of ",
                    ToString(Len(correct.val)), " correct.">>
             ELSE <<>>
        [] exercise.type = "calculation" ->
             IF correct.kind \in {"number", "tolerance"}
             THEN IF full THEN <<"Correct!">>
                  ELSE <<"Incorrect. The correct answer was: ",
                         ToString(correct.val[1])>>
             ELSE <<>>
        [] exercise.type = "matching" ->
             <<"You matched ", ToString(counted), " out of ",
               ToString(IF correct.kind = "map"
                        THEN Cardinality(DOMAIN correct.val) ELSE 0),
               " pairs correctly.">>
        [] OTHER ->
             IF ~full
               THEN <<"Incorrect. Review the solution for the correct answer.">>
             ELSE IF textScore(correct, userAnswer,
                               [exercise.validation EXCEPT !.alternatives = <<>>])
                       = Outcome(Score(100))
               THEN <<"Correct!">>
             ELSE <<"Correct! (alternative answer accepted)">>

\* validateAnswer: its result, or a TypeError.
validateAnswer(exercise, userAnswer, hintsUsed, timeTaken) ==
  LET outcome == typeScore(exercise, userAnswer)
      score == adjustedScore(exercise, userAnswer, hintsUsed, timeTaken)
      passed == ~score.nan
                /\ score.num >= exercise.validation.passingScore * score.den
  IN  [threw |-> outcome.threw,
       passed |-> passed,
       score |-> RoundScaled(score, 100),
       feedback |-> IF outcome.threw THEN <<>>
                    ELSE typeFeedback(exercise, userAnswer, outcome)
                         \o (IF passed THEN <<" You passed!">>
                             ELSE <<" You need ",
                                    ToString(exercise.validation.passingScore),
                                    "% to pass.">>),
       pointsEarned |-> RoundScaled(score, exercise.problem.maxPoints)]

\* The key of a stored exercise in EXERCISES_KV.
ExerciseKey(exerciseId) == Chars("exercise") \o <<":">> \o Chars(exerciseId)

NoResult ==
  [threw |-> FALSE, passed |-> FALSE, score |-> NaNNumber, feedback |-> <<>>,
   pointsEarned |-> NaNNumber]
NoGradeResponse == [status |-> 0, result |-> NoResult, solution |-> <<>>]

\* The POST /validate route of a body that names no userId.
validateRoute(store, body) ==
  LET exerciseData == IF TruthyStr(body.exerciseId)
                      THEN KVget(store, ExerciseKey(body.exerciseId)) ELSE <<>>
      exercise == JSONparseExercise(exerciseData[1])
      result == validateAnswer(exercise, body.answer, body.hintsUsed,
                               body.timeTaken)
  IN  IF ~TruthyStr(body.exerciseId) \/ body.answer.kind = "undefined"
        THEN [NoGradeResponse EXCEPT !.status = 400]
      ELSE IF exerciseData = <<>>
        THEN [NoGradeResponse EXCEPT !.status = 404]
      ELSE IF result.threw
        THEN [NoGradeResponse EXCEPT !.status = 500]
      ELSE [status |-> 200,
            result |-> result,
            solution |-> IF result.passed
                            \/ (~result.score.nan /\ result.score.val < 30)
                         THEN <<exercise.solution>> ELSE <<>>]

-----------------------------------------------------------------------------
(* The state machine of the scoring endpoint *)

\* The longest list of blanks of a stored exercise.
MaxBlanks == 13
\* The largest hintsUsed a submission reports.
MaxHints == 3

Repeat(x, n) == [i \in 1..n |-> x]

\* Exercise type and correct answer of the stored exercises.
StoredAnswers ==
  {<<"multiple-choice", StrV("b")>>,
   <<"fill-blank", ListV(<<"Paris", "3/4">>)>>,
   <<"fill-blank", StrV("")>>,
   <<"calculation", NumV(60000)>>,
   <<"calculation", TolV(60000, 500)>>,
   <<"calculation", StrV("60")>>,
   <<"true-false", BoolsV(<<TRUE, FALSE, TRUE>>)>>,
   <<"true-false", BoolsV(<<>>)>>,
   <<"matching", MapV([k \in {"a", "b"} |-> IF k = "a" THEN "Paris" ELSE "3/4"])>>,
   <<"matching", StrV("")>>,
   <<"short-answer", StrV("Paris")>>}
  \cup {<<"fill-blank", ListV(Repeat("a", n))>> : n \in 0..MaxBlanks}

StoredSubjects == {"language", "mathematics", "chemistry"}
StoredDifficulties == {"beginner", "expert"}
StoredAlternatives == {<<>>, <<"Lutetia">>}
\* <<validation.timePenalty, problem.timeLimit>>
StoredTimings == {<<0, 0>>, <<1, 60>>}

\* An exercise as parseAIResponse builds it for a subject and a difficulty,
\* with the type, the correct answer and the optional properties given.
StoredExercise(subject, difficulty, typed, alternatives, timing) ==
  LET cfg == SUBJECT_CONFIGS(subject)
      request == [NoRequest EXCEPT !.subject = subject, !.topic = "counting",
                                   !.difficulty = difficulty, !.count = 1]
      base == generateFallbackExercise(request, cfg, "e1")
  IN  [base EXCEPT !.type = typed[1],
                   !.solution.correctAnswer = typed[2],
                   !.validation.passingScore = cfg.passingScore,
                   !.validation.caseSensitive = cfg.caseSensitive,
                   !.validation.hintPenalty = cfg.hintPenalty,
                   !.validation.alternatives = alternatives,
                   !.validation.timePenalty = timing[1],
                   !.problem.timeLimit = timing[2],
                   !.metadata.generatedBy = FastModel]

StoredExercises ==
  {StoredExercise(s, d, t, a, g) :
     s \in StoredSubjects, d \in StoredDifficulties, t \in StoredAnswers,
     a \in StoredAlternatives, g \in StoredTimings}

SubmittedAnswers ==
  {NullV, StrV("b"), StrV("paris"), StrV("Lutetia"), StrV("60.3"), StrV("60.7"),
   StrV("abc"), ListV(<<"paris", "3/4">>), ListV(<<"Paris">>),
   ListV(<<"Lutetia", "3/4">>),
   BoolsV(<<TRUE, FALSE, FALSE>>), BoolsV(<<TRUE, FALSE, TRUE>>),
   MapV([k \in {"a", "b"} |-> IF k = "a" THEN "Paris" ELSE "3/4"]),
   MapV([k \in {"a"} |-> "Paris"])}
  \cup {ListV(Repeat("a", n)) : n \in 0..MaxBlanks}

SubmittedTimes == {0, 70}

Submissions ==
  {[exerciseId |-> "e1", answer |-> a, hintsUsed |-> h, timeTaken |-> t] :
     a \in SubmittedAnswers, h \in (-1)..MaxHints, t \in SubmittedTimes}
  \cup {[exerciseId |-> Undefined, answer |-> StrV("b"), hintsUsed |-> 0,
         timeTaken |-> 0],
        [exerciseId |-> "e1", answer |-> UndefV, hintsUsed |-> 0, timeTaken |-> 0],
        [exerciseId |-> "abc", answer |-> StrV("b"), hintsUsed |-> 0,
         timeTaken |-> 0]}

\* EXERCISES_KV holds one exercise under its exercise key.  No route of the
\* worker writes such a key: the entry is put there from outside.
InitValidate ==
  /\ env \in {e \in EnvConfigs :
                /\ e.AI /\ e.KV
                /\ e.DEFAULT_MODEL = Undefined /\ e.QUALITY_MODEL = Undefined}
  /\ kv \in {(ExerciseKey("e1") :> <<JSONstringify(ex)>>) : ex \in StoredExercises}
  /\ procs = [p \in Procs |-> IdleProc]
  /\ grading = NoGrading
  /\ hinting = NoHinting
  /\ LimiterIdle

\* A variant of the route that stores the exercise again with one more
\* point of hint penalty each time it has scored a submission.
ValidateAndStore(body) ==
  /\ grading = NoGrading
  /\ grading' = <<[body |-> body, response |-> validateRoute(kv, body)]>>
  /\ kv' = [key \in DOMAIN kv |->
             <<[kv[key][1] EXCEPT !.validation.hintPenalty = @ + 1]>>]
  /\ UNCHANGED <<env, procs, hinting, rateLimitMap, now, limited, admitted>>

\* A POST /validate request arrives and its response is computed.
Validate(body) ==
  /\ grading = NoGrading
  /\ grading' = <<[body |-> body, response |-> validateRoute(kv, body)]>>
  /\ UNCHANGED <<env, kv, procs, hinting, rateLimitMap, now, limited, admitted>>

\* The response is sent to the client.
Respond ==
  /\ grading # NoGrading
  /\ grading' = NoGrading
  /\ UNCHANGED <<env, kv, procs, hinting, rateLimitMap, now, limited, admitted>>

NextValidate ==
  \/ \E body \in Submissions : Validate(body)
  \/ Respond

SpecValidate == InitValidate /\ [][NextValidate]_vars

\* The exercise the scoring endpoint holds, and the last graded submission.
stored == JSONparseExercise(kv[ExerciseKey("e1")][1])
graded == grading # NoGrading /\ grading[1].response.status = 200

-----------------------------------------------------------------------------
(* Properties of the scoring endpoint (SpecValidate) *)

result == grading[1].response.result
submission == grading[1].body

InRange(number, low, high) ==
  ~number.nan /\ low <= number.val /\ number.val <= high

\* C1: in every result of validateAnswer the returned score lies in [0,100]
\* and the returned pointsEarned lies in [0, problem.maxPoints].
C1_ScoreAndPointsInRange ==
  graded =>
    /\ InRange(result.score, 0, 100)
    /\ InRange(result.pointsEarned, 0, stored.problem.maxPoints)

\* C6: in every result of validateAnswer, passed is true if and only if the
\* returned score is greater than or equal to validation.passingScore.
C6_PassedIffReturnedScorePasses ==
  graded =>
    (result.passed <=>
       (~result.score.nan /\ result.score.val >= stored.validation.passingScore))

\* C7: in every result of validateAnswer, pointsEarned equals
\* round(score / 100 * problem.maxPoints) for the score returned in that result.
C7_PointsFromReturnedScore ==
  graded =>
    result.pointsEarned =
      (IF result.score.nan THEN NaNNumber
       ELSE RoundScaled(Score(result.score.val), stored.problem.maxPoints))

Greater(a, b) == ~a.nan /\ ~b.nan /\ a.val > b.val

\* C8: hint penalty monotonicity.  For the stored exercise, the submitted
\* answer and timeTaken, the score returned with any hintsUsed h2 that is at
\* least the submitted hintsUsed is not greater than the score returned.
C8_HintMonotone ==
  graded =>
    \A h2 \in (-1)..MaxHints :
      submission.hintsUsed <= h2 =>
        ~Greater(validateAnswer(stored, submission.answer, h2,
                                submission.timeTaken).score,
                 result.score)

\* A graded submission without hints that scored 100, for which two hints
\* bring the score down by twice the hint penalty.
C8_Witness ==
  /\ graded
  /\ submission.hintsUsed = 0
  /\ result.score = Number(100)
  /\ validateAnswer(stored, submission.answer, 2, submission.timeTaken).score
       = Number(100 - 2 * stored.validation.hintPenalty)

-----------------------------------------------------------------------------
(* Properties of the generation endpoint (Spec) *)

Done(p) == procs[p].pc = "done"

FromFallback(exercise) == exercise.metadata.generatedBy = "fallback"

\* C2: whenever the fallback chain of a unit is exhausted without a valid
\* exercise, the response holds a fallback-generated exercise for that unit
\* and its meta carries the warning flag.  With the AI binding present a
\* fallback exercise is in the response only when a unit's chain was exhausted.
C2_ExhaustedChainWarns ==
  \A p \in Procs :
    (/\ env.AI
     /\ Done(p)
     /\ procs[p].response.status = 200
     /\ \E k \in 1..Len(procs[p].response.exercises) :
          FromFallback(procs[p].response.exercises[k]))
    => procs[p].response.meta.warning

\* The generated text is not valid structured data, or lacks one of the
\* fields instruction, content, solution.correctAnswer.
Malformed(text) ==
  LET clean == StripFences(text)
      parsed == JSONparse(clean.body)
  IN  \/ clean.head # <<>> \/ clean.tail # <<>>
      \/ ~parsed.ok
      \/ parsed.kind # "object"
      \/ ~TruthyStr(parsed.instruction)
      \/ ~parsed.content.present
      \/ ~TruthyV(parsed.solution.correctAnswer)

TextOutcome(text) == [kind |-> "text", text |-> text, message |-> ""]

\* C3: parseAIResponse returns no exercise for a generated text that is not
\* valid structured data or lacks a required field, and the orchestrator then
\* takes no exercise from that backend: it goes on to the next chain member
\* or to the fallback exercise.
C3_MalformedYieldsNoExercise ==
  \A p \in Procs :
    procs[p].pc = "aiRun" =>
      \A text \in Texts, id \in Suffixes :
        Malformed(text) =>
          LET st == procs[p]
              after == afterAIRun(env, st, TextOutcome(text), id)
          IN  /\ parseAIResponse(text, st.request,
                                 SUBJECT_CONFIGS(st.request.subject),
                                 Chain(env, st)[st.chainIdx], id) = <<>>
              /\ after.pc # "cachePut"
              /\ \A k \in (Len(st.exercises) + 1)..Len(after.exercises) :
                   FromFallback(after.exercises[k])

\* C4: when the effective count is 1 and the cache holds an entry under the
\* request's fingerprint, the lookup that returns it ends generateExercise:
\* no backend is invoked, nothing is written to the cache, and the response
\* has meta.cached = true and the stored exercise as its single exercise.
C4_CacheHitShortCircuits ==
  \A p \in Procs :
    (/\ procs[p].pc = "cacheGet"
     /\ procs[p].count = 1
     /\ KVget(kv, getCacheKey(procs[p].request)) # <<>>)
    => \A ids \in [1..1 -> Suffixes] :
         LET after == afterCacheGet(env, kv, procs[p], "ok", ids) IN
         /\ after.pc = "done"
         /\ after.aiCalls = <<>>
         /\ after.kvWrites = 0
         /\ after.response.status = 200
         /\ after.response.meta.cached
         /\ after.response.exercises =
              <<JSONparseExercise(kv[getCacheKey(procs[p].request)][1])>>

\* A request was answered from the cache.
C4_Witness ==
  \E p \in Procs :
    /\ Done(p)
    /\ procs[p].response.meta.cached
    /\ procs[p].aiCalls = <<>>
    /\ procs[p].kvWrites = 0

\* C5: for a request with a topic and a subject of the catalog, with any
\* count, generateExercise returns a response and does not throw: the route
\* never answers with its catch-all failure.
C5_GenerateNeverThrows ==
  \A p \in Procs :
    (/\ Done(p)
     /\ procs[p].request.subject \in CatalogSubjects
     /\ TruthyStr(procs[p].request.topic))
    => procs[p].response.status = 200

\* C9: the content rating of a parsed exercise depends only on the request.
\* Any two generated texts that parse yield the same metadata.contentRating
\* for the request at hand, whatever rating they declare.
C9_RatingFromRequestOnly ==
  \A p \in Procs :
    procs[p].pc = "aiRun" =>
      \A t1 \in Texts, t2 \in Texts, id \in Suffixes :
        LET st == procs[p]
            cfg == SUBJECT_CONFIGS(st.request.subject)
            model == Chain(env, st)[st.chainIdx]
            e1 == parseAIResponse(t1, st.request, cfg, model, id)
            e2 == parseAIResponse(t2, st.request, cfg, model, id)
        IN  (e1 # <<>> /\ e2 # <<>>) =>
              e1[1].metadata.contentRating = e2[1].metadata.contentRating

\* A response holds a parsed exercise whose rating is none of the ratings
\* the generated texts declare.
C9_Witness ==
  \E p \in Procs :
    /\ Done(p)
    /\ \E k \in 1..Len(procs[p].response.exercises) :
         /\ ~FromFallback(procs[p].response.exercises[k])
         /\ procs[p].response.exercises[k].metadata.contentRating
              \notin {JSONparse(StripFences(t).body).contentRating : t \in Texts}

\* C10: a POST /generate request with no subject, no topic, or a subject
\* that is not in the subject catalog is answered with status 400 and reaches
\* neither the cache nor a backend.
C10_InvalidRequestRejected ==
  \A p \in Procs :
    (procs[p].pc # "idle"
     /\ (procs[p].request.subject \notin CatalogSubjects
         \/ ~TruthyStr(procs[p].request.topic)))
    => /\ Done(p)
       /\ procs[p].response.status = 400
       /\ procs[p].kvReads = 0
       /\ procs[p].aiCalls = <<>>

-----------------------------------------------------------------------------
(* Cache provenance and cache failures (Spec) *)

\* The exercises parseAIResponse can give for the request of a handler.
ParsedFor(st) ==
  {parseAIResponse(text, st.request, SUBJECT_CONFIGS(st.request.subject),
                   Chain(env, st)[k], id)[1] :
     <<text, k, id>> \in
       {x \in Texts \X (1..Len(Chain(env, st))) \X Suffixes :
          parseAIResponse(x[1], st.request, SUBJECT_CONFIGS(st.request.subject),
                          Chain(env, st)[x[2]], x[3]) # <<>>}}

\* C11: every value written to the exercise cache is an exercise produced
\* by parsing a backend response for a request whose effective count is 1:
\* no fallback exercise is stored and no request of another count writes.
C11_CacheWritesAreParsed ==
  [][kv' # kv =>
       \E p \in Procs :
         /\ procs[p].pc = "cachePut"
         /\ procs[p].count = 1
         /\ \E exercise \in ParsedFor(procs[p]) :
              /\ ~FromFallback(exercise)
              /\ kv' = (getCacheKey(procs[p].request) :> <<JSONstringify(exercise)>>)
                         @@ kv]_vars

\* The cache holds an exercise a backend generated.
C11_Witness ==
  \E key \in DOMAIN kv : ~FromFallback(JSONparseExercise(kv[key][1]))

\* C12: a cache read or cache write that throws neither fails the request
\* nor changes its outcome.  A failed read goes on exactly as a read of an
\* empty cache does; a failed write goes on exactly as a successful one, to
\* a response with the generated exercises and cached = false.
C12_CacheFailureIsMiss ==
  \A p \in Procs :
    LET st == procs[p] IN
    /\ st.pc = "cacheGet" =>
         \A ids \in [1..Max(1, st.count) -> Suffixes] :
           afterCacheGet(env, kv, st, "throw", ids)
             = afterCacheGet(env, <<>>, st, "ok", ids)
    /\ st.pc = "cachePut" =>
         /\ afterCachePut(env, st, "throw") = afterCachePut(env, st, "ok")
         /\ afterCachePut(env, st, "throw").response.status = 200
         /\ ~afterCachePut(env, st, "throw").response.meta.cached
         /\ afterCachePut(env, st, "throw").response.exercises = st.exercises

\* A request of count 1 was answered without the cache although the cache
\* holds an entry under its key that the request did not write: its read
\* of the cache failed.
C12_Witness ==
  \E p \in Procs :
    /\ Done(p)
    /\ procs[p].response.status = 200
    /\ ~procs[p].response.meta.cached
    /\ procs[p].count = 1
    /\ procs[p].kvReads = 1
    /\ procs[p].kvWrites = 0
    /\ KVget(kv, getCacheKey(procs[p].request)) # <<>>

-----------------------------------------------------------------------------
(* Two concurrent requests of the same fingerprint (SpecConcurrent) *)

ConcurrentProcs == {1, 2}

\* One request body: count 1 by default, one fingerprint.
ConcurrentBodies ==
  {[subject |-> "mathematics", category |-> Undefined, topic |-> "Basic Algebra",
    difficulty |-> Undefined, typesGiven |-> FALSE, types |-> <<>>, count |-> 0,
    options |-> [model |-> Undefined]]}

ConcurrentAIOutcomes ==
  {[kind |-> "text", text |-> t, message |-> ""] :
     t \in {PlainText(""), FencedText("mc"), OpenFenceText("fb")}}
  \cup {[kind |-> "throw", text |-> PlainText(""), message |-> "internal error"]}

\* The cache itself does not fail here.
ConcurrentKVOutcomes == {"ok"}

InitConcurrent ==
  /\ env \in {e \in EnvConfigs :
                /\ e.AI /\ e.KV /\ e.MAX_EXERCISES_PER_REQUEST = "2"
                /\ e.DEFAULT_MODEL = Undefined /\ e.QUALITY_MODEL = Undefined}
  /\ kv = <<>>
  /\ procs = [p \in ConcurrentProcs |-> IdleProc]
  /\ grading = NoGrading
  /\ hinting = NoHinting
  /\ LimiterIdle

NextConcurrent ==
  \E p \in ConcurrentProcs :
    \/ \E body \in ConcurrentBodies : Receive(p, body)
    \/ \E outcome \in ConcurrentKVOutcomes : CacheGetReturn(p, outcome)
    \/ \E outcome \in ConcurrentAIOutcomes : AIRunReturn(p, outcome)
    \/ \E outcome \in ConcurrentKVOutcomes : CachePutReturn(p, outcome)

SpecConcurrent == InitConcurrent /\ [][NextConcurrent]_vars

\* C13: there is no single-flight guarantee.  Whatever the other request of
\* the same fingerprint is doing, a request that reads a cache miss goes on
\* to invoke a backend, and a request that has generated an exercise writes
\* it under the fingerprint, replacing what is there, and answers with its
\* own exercise and cached = false.  The interleaving in which both requests
\* miss and both generate is C13_Witness.
C13_NoSingleFlight ==
  [][\A p \in ConcurrentProcs :
       LET st == procs[p]
           key == getCacheKey(st.request)
       IN  st # procs'[p] =>
             /\ (st.pc = "cacheGet" /\ KVget(kv, key) = <<>>)
                  => /\ procs'[p].pc = "aiRun"
                     /\ Len(procs'[p].aiCalls) = 1
             /\ st.pc = "cachePut"
                  => /\ KVget(kv', key) = <<JSONstringify(st.exercises[1])>>
                     /\ Done(p)'
                     /\ procs'[p].response.status = 200
                     /\ ~procs'[p].response.meta.cached
                     /\ procs'[p].response.exercises = st.exercises]_vars

\* Both requests have the same fingerprint, read the cache once and invoked
\* a backend, both wrote, both answered cached = false with exercises that
\* differ, and the cache holds the exercise of one of them.
C13_Witness ==
  /\ \A p \in ConcurrentProcs :
        /\ Done(p)
        /\ procs[p].count = 1
        /\ procs[p].kvReads = 1
        /\ procs[p].aiCalls # <<>>
        /\ procs[p].kvWrites = 1
        /\ procs[p].response.status = 200
        /\ ~procs[p].response.meta.cached
  /\ getCacheKey(procs[1].request) = getCacheKey(procs[2].request)
  /\ procs[1].response.exercises # procs[2].response.exercises
  /\ KVget(kv, getCacheKey(procs[1].request))
       = <<JSONstringify(procs[2].response.exercises[1])>>

-----------------------------------------------------------------------------
(* Order of the backend calls of one request (Spec) *)

\* The calls of a request made for unit u, in the order they were made.
CallsOfUnit(calls, u) == SelectSeq(calls, LAMBDA call : call[1] = u)

\* C14: a request has one backend call outstanding while it awaits AI.run
\* and none otherwise.  The calls of a unit are made in chain order from the
\* first member on, each member at most once; no call follows the one whose
\* response parsed into the unit's exercise; and a call for a unit is made
\* only when all units before it have been produced.
C14_SequentialChain ==
  \A p \in Procs :
    LET st == procs[p]
        calls == st.aiCalls
        chain == Chain(env, st)
    IN  calls # <<>> =>
          /\ calls[1] = <<0, chain[1]>>
          /\ \A k \in 2..Len(calls) :
                \/ /\ calls[k][1] = calls[k - 1][1]
                   /\ \E j \in 1..(Len(chain) - 1) :
                        calls[k - 1][2] = chain[j] /\ calls[k][2] = chain[j + 1]
                \/ /\ calls[k][1] = calls[k - 1][1] + 1
                   /\ calls[k][2] = chain[1]
          /\ \A u \in 0..(Len(st.exercises) - 1) :
                LET made == CallsOfUnit(calls, u) IN
                /\ made # <<>>
                /\ Len(made) <= Len(chain)
                /\ \A j \in 1..Len(made) : made[j][2] = chain[j]
                /\ IF FromFallback(st.exercises[u + 1])
                   THEN Len(made) = Len(chain)
                   ELSE st.exercises[u + 1].metadata.generatedBy = made[Len(made)][2]
          /\ calls[Len(calls)][1] <= Len(st.exercises)
          /\ st.pc = "aiRun" =>
                /\ calls[Len(calls)] = <<st.i, chain[st.chainIdx]>>
                /\ st.i = Len(st.exercises)

\* A request for two units was answered after its first unit took the
\* exercise of the third member of its chain and its second unit was started.
C14_Witness ==
  \E p \in Procs :
    /\ Done(p)
    /\ procs[p].response.status = 200
    /\ Len(procs[p].exercises) = 2
    /\ Len(Chain(env, procs[p])) = 3
    /\ Len(CallsOfUnit(procs[p].aiCalls, 0)) = 3
    /\ ~FromFallback(procs[p].exercises[1])
    /\ CallsOfUnit(procs[p].aiCalls, 1) # <<>>

\* C16: a response of generateExercise that was not served from the cache,
\* to a request with requested count c >= 1, holds exactly min(c, cap)
\* exercises, where cap is the configured maximum per request, or 10 when it
\* is unset or does not parse: one exercise per unit, generated or fallback.
C16_ExactCount ==
  \A p \in Procs :
    LET st == procs[p]
        cap == IF parseInt(env.MAX_EXERCISES_PER_REQUEST) # 0
               THEN parseInt(env.MAX_EXERCISES_PER_REQUEST)
               ELSE DefaultMaxExercises
    IN  (/\ Done(p)
         /\ st.response.status = 200
         /\ ~st.response.meta.cached
         /\ st.request.count >= 1)
        => /\ Len(st.response.exercises) = Min(st.request.count, cap)
           /\ st.i = Len(st.response.exercises)

\* A request for three exercises was answered with two, the configured
\* maximum: one generated and one fallback exercise.
C16_Witness ==
  \E p \in Procs :
    /\ Done(p)
    /\ procs[p].response.status = 200
    /\ procs[p].request.count = 3
    /\ env.MAX_EXERCISES_PER_REQUEST = "2"
    /\ Len(procs[p].response.exercises) = 2
    /\ ~FromFallback(procs[p].response.exercises[1])
    /\ FromFallback(procs[p].response.exercises[2])

\* C18: the type of every exercise parseAIResponse produces is one of the
\* fourteen exercise types, and it is short-answer when the type tag of the
\* generated payload is missing or is not one of them.
C18_TypeInClosedSet ==
  \A p \in Procs :
    procs[p].pc = "aiRun" =>
      \A text \in Texts, id \in Suffixes :
        LET st == procs[p]
            exercise == parseAIResponse(text, st.request,
                                        SUBJECT_CONFIGS(st.request.subject),
                                        Chain(env, st)[st.chainIdx], id)
            tag == JSONparse(StripFences(text).body).content.type
        IN  exercise # <<>> =>
              /\ exercise[1].type \in ExerciseTypes
              /\ tag \notin ExerciseTypes => exercise[1].type = "short-answer"

\* C20: the fallback chain of a request names no backend twice and starts
\* with the backend selectModel chose; after it come the global default and
\* the lightweight backend in that order, each left out when it is already
\* in the chain before its place.
C20_ChainShape ==
  \A p \in Procs :
    procs[p].pc \in {"cacheGet", "aiRun", "cachePut"} =>
      LET chain == Chain(env, procs[p])
          selected == selectModel(env, procs[p].request)
          default == OrElse(env.DEFAULT_MODEL, FastModel)
      IN  /\ \A i \in 1..Len(chain), j \in 1..Len(chain) :
                chain[i] = chain[j] => i = j
          /\ chain[1] = selected
          /\ Tail(chain) =
               (IF default # selected THEN <<default>> ELSE <<>>)
               \o (IF LightModel \notin {selected, default}
                   THEN <<LightModel>> ELSE <<>>)

\* A request is calling a backend with a chain from which a second mention
\* of the lightweight backend was removed.
C20_Witness ==
  \E p \in Procs :
    /\ procs[p].pc = "aiRun"
    /\ Chain(env, procs[p]) = <<LightModel, FastModel>>

-----------------------------------------------------------------------------
(* The hints endpoint *)

\* parseInt of a text: an optional sign and the longest run of digits after
\* it; NaN when there is no digit.  Leading blanks and the 0x prefix are not
\* among the texts read here.
parseIntChars(cs) ==
  LET signed == Len(cs) > 0 /\ cs[1] \in {"-", "+"}
      digits == DigitPrefix(IF signed THEN Tail(cs) ELSE cs)
  IN  IF digits = <<>> THEN NaNNumber
      ELSE IF signed /\ cs[1] = "-" THEN Number(-DigitsValue(digits))
      ELSE Number(DigitsValue(digits))

\* number + 1
PlusOne(number) == IF number.nan THEN NaNNumber ELSE Number(number.val + 1)

\* A variant of slice in which a negative end means the end of the list.
sliceToEnd(list, start, end) ==
  LET n == Len(list)
      from == Min(start, n)
      to == IF end.nan THEN 0
            ELSE IF end.val < 0 THEN n
            ELSE Min(end.val, n)
  IN  SubSeq(list, from + 1, to)

\* Array.prototype.slice(start, end) for start >= 0: a NaN end is 0 and a
\* negative end counts from the end of the list.
slice(list, start, end) ==
  LET n == Len(list)
      from == Min(start, n)
      to == IF end.nan THEN 0
            ELSE IF end.val < 0 THEN Max(n + end.val, 0)
            ELSE Min(end.val, n)
  IN  SubSeq(list, from + 1, to)

NoHintsResponse ==
  [status |-> 0, hints |-> <<>>, hasMore |-> FALSE, totalHints |-> 0,
   penalty |-> 0]

\* The GET /hints/:exerciseId route; index is the query parameter or
\* Undefined when the query has none.
hintsRoute(store, exerciseId, index) ==
  LET hintIndex == parseIntChars(Chars(IF TruthyStr(index) THEN index ELSE "0"))
      exerciseData == KVget(store, ExerciseKey(exerciseId))
      exercise == JSONparseExercise(exerciseData[1])
      availableHints == slice(exercise.hints, 0, PlusOne(hintIndex))
  IN  IF exerciseData = <<>>
        THEN [NoHintsResponse EXCEPT !.status = 404]
      ELSE [status |-> 200,
            hints |-> availableHints,
            hasMore |-> ~hintIndex.nan /\ hintIndex.val + 1 < Len(exercise.hints),
            totalHints |-> Len(exercise.hints),
            penalty |-> exercise.validation.hintPenalty * Len(availableHints)]

-----------------------------------------------------------------------------
(* The state machine of a learner who asks for hints and then submits (SpecHints) *)

\* The longest hint list of a stored exercise.
MaxStoredHints == 3

\* The k-th hint of the stored exercise.
Hint(k) == <<"hint", k>>

HintLists == {[k \in 1..n |-> Hint(k)] : n \in 0..MaxStoredHints}

StoredHintExercises ==
  {[StoredExercise(s, "beginner", <<"multiple-choice", StrV("b")>>, <<>>, <<0, 0>>)
      EXCEPT !.hints = list] :
     s \in StoredSubjects, list \in HintLists}

\* The index parameter of the query.
QueryIndexes == {Undefined, "", "0", "1", "2", "5", "-1", "-2", "abc", "60.3"}

HintSubmissions ==
  {[exerciseId |-> "e1", answer |-> a, hintsUsed |-> h, timeTaken |-> 0] :
     a \in {StrV("b"), StrV("abc")}, h \in 0..MaxStoredHints}

InitHints ==
  /\ env \in {e \in EnvConfigs :
                /\ e.AI /\ e.KV /\ e.MAX_EXERCISES_PER_REQUEST = "2"
                /\ e.DEFAULT_MODEL = Undefined /\ e.QUALITY_MODEL = Undefined}
  /\ kv \in {(ExerciseKey("e1") :> <<JSONstringify(ex)>>) : ex \in StoredHintExercises}
  /\ procs = [p \in Procs |-> IdleProc]
  /\ grading = NoGrading
  /\ hinting = NoHinting
  /\ LimiterIdle

\* A GET /hints request arrives and is answered.  The worker stores nothing;
\* hinting.revealed is the number of hints the learner has been sent so far.
GetHints(exerciseId, index) ==
  /\ grading = NoGrading
  /\ LET response == hintsRoute(kv, exerciseId, index) IN
     hinting' = [revealed |-> Max(hinting.revealed, Len(response.hints)),
                 response |-> <<[index |-> index, response |-> response]>>]
  /\ UNCHANGED <<env, kv, procs, grading, rateLimitMap, now, limited, admitted>>

\* The learner's session ends.
Leave ==
  /\ grading # NoGrading
  /\ grading' = NoGrading
  /\ hinting' = NoHinting
  /\ UNCHANGED <<env, kv, procs, rateLimitMap, now, limited, admitted>>

NextHints ==
  \/ \E exerciseId \in {"e1", "abc"}, index \in QueryIndexes :
       GetHints(exerciseId, index)
  \/ \E body \in HintSubmissions : Validate(body)
  \/ Leave

SpecHints == InitHints /\ [][NextHints]_vars

\* The last answer of the hints route, when it found the exercise.
hinted == hinting.response # <<>> /\ hinting.response[1].response.status = 200
served == hinting.response[1].response.hints
hintIndex == parseIntChars(Chars(IF TruthyStr(hinting.response[1].index)
                                 THEN hinting.response[1].index ELSE "0"))

IsPrefix(s, t) == Len(s) <= Len(t) /\ s = SubSeq(t, 1, Len(s))

\* C15: GET /hints returns a prefix of the stored hints in their order, and
\* the returned list is the whole hint list only when index + 1 is at least
\* the number of hints or the exercise has no hints at all.
C15_HintsArePrefix ==
  hinted =>
    /\ IsPrefix(served, stored.hints)
    /\ served = stored.hints =>
         \/ ~hintIndex.nan /\ hintIndex.val + 1 >= Len(stored.hints)
         \/ stored.hints = <<>>

\* C15 as stated: the returned list is the whole hint list only when
\* index + 1 is at least the number of hints.
C15_FullListOnlyWhenAsked ==
  hinted =>
    /\ IsPrefix(served, stored.hints)
    /\ served = stored.hints =>
         (~hintIndex.nan /\ hintIndex.val + 1 >= Len(stored.hints))

\* The route answered with some but not all of the hints.
C15_Witness ==
  /\ hinted
  /\ served # <<>>
  /\ Len(served) < Len(stored.hints)

\* C19: the score of a graded submission is the one validateAnswer gives for
\* the number of hints the learner was sent before submitting, whatever
\* hintsUsed the submission declares.
C19_PenaltyPerHintRevealed ==
  graded =>
    result.score =
      validateAnswer(stored, submission.answer, hinting.revealed,
                     submission.timeTaken).score

-----------------------------------------------------------------------------
(* Purity of scoring (SpecValidate) *)

-----------------------------------------------------------------------------
(* Requests that name exercise types and a backend tier (SpecTypes) *)

TypeLists ==
  {<<>>, <<"proof">>, <<"calculation">>, <<"proof", "calculation">>,
   <<"calculation", "proof">>}

\* Without the cache: every subject, type list and tier for one topic, and
\* every subject, topic, category and difficulty without types or tier.
\* With the cache: the two requests that differ only in the order of their
\* types, so that the cache stays small.
TypedBodies(e) ==
  {[subject |-> s, category |-> Undefined, topic |-> "Basic Algebra",
    difficulty |-> Undefined, typesGiven |-> types # <<>>, types |-> types,
    count |-> 0, options |-> [model |-> m]] :
     s \in (IF e.KV THEN {"mathematics"} ELSE {"mathematics", "physics", "history"}),
     types \in (IF e.KV THEN {l \in TypeLists : Len(l) = 2} ELSE TypeLists),
     m \in (IF e.KV THEN {Undefined}
            ELSE {Undefined, "default", "quality", "reasoning"})}
  \cup
  {[subject |-> s, category |-> c, topic |-> t, difficulty |-> d,
    typesGiven |-> FALSE, types |-> <<>>, count |-> 0,
    options |-> [model |-> Undefined]] :
     s \in (IF e.KV THEN {} ELSE CatalogSubjects),
     c \in {Undefined, "algorithms"},
     t \in {"counting", "algorithms", "Basic Algebra", "quantum physics"},
     d \in {Undefined, "beginner", "elementary", "intermediate", "advanced",
            "expert"}}

InitTypes ==
  /\ env \in {e \in EnvConfigs :
                /\ e.AI /\ e.MAX_EXERCISES_PER_REQUEST = "2"
                /\ e.DEFAULT_MODEL = Undefined /\ e.QUALITY_MODEL = Undefined}
  /\ kv = <<>>
  /\ procs = [p \in Procs |-> IdleProc]
  /\ grading = NoGrading
  /\ hinting = NoHinting
  /\ LimiterIdle

NextTypes ==
  \E p \in Procs :
    \/ \E body \in TypedBodies(env) : Receive(p, body)
    \/ \E outcome \in ConcurrentKVOutcomes : CacheGetReturn(p, outcome)
    \/ \E outcome \in ConcurrentAIOutcomes : AIRunReturn(p, outcome)
    \/ \E outcome \in ConcurrentKVOutcomes : CachePutReturn(p, outcome)

SpecTypes == InitTypes /\ [][NextTypes]_vars

\* C21: the first backend a request calls is the one of the tier that
\* options.model names (default, quality or reasoning), whatever the subject
\* and the types; without a preference it is the reasoning backend for a
\* mathematics or physics request whose types include proof or derivation,
\* and the default fast backend otherwise.
C21_PreferenceFirst ==
  \A p \in Procs :
    procs[p].aiCalls # <<>> =>
      LET request == procs[p].request
          preference == request.options.model
          default == OrElse(env.DEFAULT_MODEL, FastModel)
          quality == OrElse(env.QUALITY_MODEL, QualityModel)
          reasoning == OrElse(env.REASONING_MODEL, ReasoningModel)
      IN  procs[p].aiCalls[1][2] =
            (CASE preference = "default" -> default
               [] preference = "quality" -> quality
               [] preference = "reasoning" -> reasoning
               [] OTHER ->
                    IF /\ request.subject \in {"mathematics", "physics"}
                       /\ \E i \in 1..Len(request.types) :
                            request.types[i] \in {"proof", "derivation"}
                    THEN reasoning ELSE default)

\* C22: the cache key does not depend on the order of the requested types.
\* When the cache holds an entry stored for a request that differs from the
\* one at the lookup only in the order of its types, the lookup finds it and
\* the request is served from the cache.
C22_KeyIgnoresTypeOrder ==
  \A p \in Procs :
    (procs[p].pc = "cacheGet" /\ procs[p].count = 1) =>
      \A types \in TypeLists :
        (/\ {types[i] : i \in 1..Len(types)}
              = {procs[p].request.types[i] : i \in 1..Len(procs[p].request.types)}
         /\ KVget(kv, getCacheKey([procs[p].request EXCEPT !.types = types])) # <<>>)
        => \A ids \in [1..1 -> Suffixes] :
             LET after == afterCacheGet(env, kv, procs[p], "ok", ids) IN
             after.pc = "done" /\ after.response.meta.cached

-----------------------------------------------------------------------------
(* Type-specific scores (SpecValidate) *)

\* Equality of two texts, ignoring letter case unless caseSensitive.
SameText(a, b, caseSensitive) ==
  IF caseSensitive THEN a = b ELSE toLowerCase(a) = toLowerCase(b)

\* C23: for a fill-blank exercise whose correct answer lists n >= 1 strings
\* and a submitted list of strings, the score of the type is
\* 100 * (correct-count / n), where element i is correct iff the submitted
\* element equals the correct element or a listed alternative, letter case
\* being ignored in both comparisons when validation.caseSensitive is false.
C23_FillBlankScore ==
  (/\ grading # NoGrading
   /\ stored.type = "fill-blank"
   /\ stored.solution.correctAnswer.kind = "list"
   /\ Len(stored.solution.correctAnswer.val) >= 1
   /\ submission.answer.kind = "list")
  => LET correct == stored.solution.correctAnswer.val
         validation == stored.validation
         given(i) == IF i <= Len(submission.answer.val)
                     THEN Chars(submission.answer.val[i]) ELSE <<>>
         right(i) ==
           \/ SameText(given(i), Chars(correct[i]), validation.caseSensitive)
           \/ \E j \in 1..Len(validation.alternatives) :
                SameText(given(i), Chars(validation.alternatives[j]),
                         validation.caseSensitive)
     IN  typeScore(stored, submission.answer)
           = Outcome(Ratio(Cardinality({i \in 1..Len(correct) : right(i)}),
                           Len(correct)))

-----------------------------------------------------------------------------
(* Content rating and points of the exercises of a response (SpecTypes) *)

\* The exercises of the responses with status 200.
Returned ==
  {procs[p].response.exercises[k] :
     <<p, k>> \in {x \in Procs \X (1..2) :
                    /\ Done(x[1])
                    /\ procs[x[1]].response.status = 200
                    /\ x[2] <= Len(procs[x[1]].response.exercises)}}

\* The substring lists of the tiers, from the least to the most restrictive.
TierLists == <<age8Plus, age12Plus, age16Plus>>
TierNames == <<"age-8-plus", "age-12-plus", "age-16-plus">>

\* C24: the content rating of an exercise is that of the most restrictive
\* tier one of whose substrings occurs in the lower-cased topic or category,
\* and the default of the subject (all-ages for language, mathematics and
\* geography, age-8-plus for the others) when no substring of any tier occurs.
C24_MostRestrictiveTier ==
  \A exercise \in Returned :
    LET lowerTopic == toLowerCase(Chars(exercise.topic))
        lowerCategory == toLowerCase(Chars(exercise.category))
        matching == {tier \in 1..3 :
                       \E i \in 1..Len(TierLists[tier]) :
                         \/ includes(lowerTopic, TierLists[tier][i])
                         \/ includes(lowerCategory, TierLists[tier][i])}
    IN  exercise.metadata.contentRating =
          (IF matching # {}
           THEN TierNames[CHOOSE tier \in matching : \A other \in matching : other <= tier]
           ELSE IF exercise.subject \in {"language", "mathematics", "geography"}
             THEN "all-ages"
           ELSE "age-8-plus")

\* An exercise on quantum physics, which a substring of the age-12-plus
\* list and one of the age-16-plus list match, is rated age-16-plus.
C24_Witness ==
  \E exercise \in Returned :
    /\ exercise.topic = "quantum physics"
    /\ ~FromFallback(exercise)
    /\ exercise.metadata.contentRating = "age-16-plus"

-----------------------------------------------------------------------------
(* The static exercise bank *)

Template(subject, topic, difficulty, type, correctAnswer) ==
  [subject |-> subject, topic |-> topic, difficulty |-> difficulty,
   type |-> type, correctAnswer |-> correctAnswer]

\* The templates of exercisesBySubject with the subject they are filed under.
mathExercises ==
  {Template("mathematics", "algebra", "beginner", "multiple-choice", "b"),
   Template("mathematics", "algebra", "intermediate", "calculation", "x = 2 or x = 3"),
   Template("mathematics", "geometry", "beginner", "multiple-choice", "c"),
   Template("mathematics", "fractions", "beginner", "fill-blank", "3/4")}

scienceExercises ==
  {Template("science", "biology", "beginner", "multiple-choice", "b"),
   Template("science", "chemistry", "intermediate", "multiple-choice", "c"),
   Template("science", "physics", "intermediate", "calculation", "60 km/h")}

historyExercises ==
  {Template("history", "world-history", "beginner", "multiple-choice", "c"),
   Template("history", "ancient-history", "intermediate", "fill-blank", "Khufu")}

languageExercises ==
  {Template("language", "grammar", "beginner", "multiple-choice", "b"),
   Template("language", "vocabulary", "intermediate", "fill-blank", "groundbreaking")}

computerScienceExercises ==
  {Template("computer-science", "programming", "beginner", "multiple-choice", "b"),
   Template("computer-science", "algorithms", "intermediate", "multiple-choice", "c")}

exercisesBySubject ==
  mathExercises \cup scienceExercises \cup historyExercises
    \cup languageExercises \cup computerScienceExercises

\* templateToExercise: the fields of the template are copied, the points are
\* 10 for beginner, 20 for intermediate and 30 for every other level.
templateToExercise(template, subject, category, requestedTopic) ==
  [id |-> "e1",
   subject |-> subject,
   category |-> category,
   difficulty |-> template.difficulty,
   type |-> template.type,
   topic |-> OrElse(template.topic, requestedTopic),
   problem |-> [instruction |-> "instruction",
                content |-> [present |-> TRUE, type |-> template.type],
                context |-> Absent,
                maxPoints |-> IF template.difficulty = "beginner" THEN 10
                              ELSE IF template.difficulty = "intermediate" THEN 20
                              ELSE 30,
                timeLimit |-> 0],
   solution |-> [correctAnswer |-> StrV(template.correctAnswer),
                 explanation |-> "explanation"],
   hints |-> <<"hint">>,
   validation |-> [passingScore |-> 70,
                   allowPartialCredit |-> TRUE,
                   caseSensitive |-> FALSE,
                   tolerance |-> 0,
                   alternatives |-> <<>>,
                   hintPenalty |-> 5,
                   timePenalty |-> 0],
   metadata |-> [generatedBy |-> "static-bank",
                 contentRating |->
                   determineContentRating(subject, category, template.topic),
                 estimatedTime |-> IF template.difficulty = "beginner" THEN 60
                                   ELSE IF template.difficulty = "intermediate" THEN 120
                                   ELSE 180]]

-----------------------------------------------------------------------------
(* Exercises of the three constructors, stored and graded (SpecBank) *)

DifficultyLevels ==
  <<"beginner", "elementary", "intermediate", "advanced", "expert">>

LevelRequest(difficulty) ==
  [NoRequest EXCEPT !.subject = "mathematics", !.topic = "counting",
                    !.difficulty = difficulty, !.count = 1]

\* The exercises templateToExercise builds from the bank, and those
\* parseAIResponse and generateFallbackExercise build for each difficulty.
BankExercises ==
  {templateToExercise(t, t.subject, "any", t.topic) : t \in exercisesBySubject}

GeneratedExercises ==
  {parseAIResponse(FencedText("mc"), LevelRequest(DifficultyLevels[l]),
                   SUBJECT_CONFIGS("mathematics"), FastModel, "e1")[1] : l \in 1..5}
  \cup {generateFallbackExercise(LevelRequest(DifficultyLevels[l]),
                                  SUBJECT_CONFIGS("mathematics"), "e1") : l \in 1..5}

\* A correct answer of the bank as the text itself and as a one-element list.
BankSubmissions ==
  {[exerciseId |-> "e1", answer |-> a, hintsUsed |-> 0, timeTaken |-> 0] :
     a \in {StrV(t.correctAnswer) : t \in exercisesBySubject}
           \cup {ListV(<<t.correctAnswer>>) : t \in exercisesBySubject}
           \cup {StrV("a"), NullV}}

InitBank ==
  /\ env \in {e \in EnvConfigs :
                /\ e.AI /\ e.KV /\ e.MAX_EXERCISES_PER_REQUEST = "2"
                /\ e.DEFAULT_MODEL = Undefined /\ e.QUALITY_MODEL = Undefined}
  /\ kv \in {(ExerciseKey("e1") :> <<JSONstringify(ex)>>) :
               ex \in BankExercises \cup GeneratedExercises}
  /\ procs = [p \in Procs |-> IdleProc]
  /\ grading = NoGrading
  /\ hinting = NoHinting
  /\ LimiterIdle

NextBank ==
  \/ \E body \in BankSubmissions : Validate(body)
  \/ Respond

SpecBank == InitBank /\ [][NextBank]_vars

Level(difficulty) == CHOOSE l \in 1..5 : DifficultyLevels[l] = difficulty

\* The constructor of an exercise: the static bank, the fallback generator,
\* or the response parser.
Constructor(exercise) ==
  IF exercise.metadata.generatedBy \in {"static-bank", "fallback"}
  THEN exercise.metadata.generatedBy ELSE "parser"

C29_BankSolvable ==
  Constructor(stored) = "static-bank" =>
    \E body \in BankSubmissions :
      /\ body.answer \in {stored.solution.correctAnswer,
                           ListV(<<stored.solution.correctAnswer.val[1]>>)}
      /\ validateRoute(kv, body).status = 200
      /\ validateRoute(kv, body).result.score = Number(100)
      /\ validateRoute(kv, body).result.passed

-----------------------------------------------------------------------------
(* Generation followed by grading (SpecGrade) *)

\* A submission for the exercise of each identifier a response can carry.
GradeSubmissions ==
  {[exerciseId |-> id, answer |-> StrV("b"), hintsUsed |-> 0, timeTaken |-> 0] :
     id \in Suffixes}

NextGrade ==
  \/ \E p \in Procs :
       \/ \E body \in {b \in Bodies : /\ b.subject = "mathematics"
                                     /\ TruthyStr(b.topic)
                                     /\ b.count \in {0, 2}} :
            Receive(p, body)
       \/ \E outcome \in ConcurrentKVOutcomes : CacheGetReturn(p, outcome)
       \/ \E outcome \in ConcurrentAIOutcomes : AIRunReturn(p, outcome)
       \/ \E outcome \in ConcurrentKVOutcomes : CachePutReturn(p, outcome)
  \/ \E body \in GradeSubmissions : Validate(body)
  \/ Respond

SpecGrade == InitTypes /\ [][NextGrade]_vars

\* C26: an exercise returned by POST /generate can be graded afterwards:
\* POST /validate with the id of an exercise of a response finds the
\* exercise and does not answer 404.
C26_ReturnedIsGradable ==
  (/\ grading # NoGrading
   /\ \E exercise \in Returned : exercise.id = submission.exerciseId)
  => grading[1].response.status # 404

-----------------------------------------------------------------------------
(* Totality of scoring (SpecValidate) *)

\* C27: validateAnswer returns a result for every answer POST /validate
\* lets through.  A submission with an exercise id that is found and an
\* answer other than undefined is answered with status 200, not with the
\* failure the route gives when validateAnswer throws.
C27_ValidateAnswerTotal ==
  (/\ grading # NoGrading
   /\ TruthyStr(submission.exerciseId)
   /\ submission.answer.kind # "undefined"
   /\ KVget(kv, ExerciseKey(submission.exerciseId)) # <<>>)
  => /\ ~validateAnswer(stored, submission.answer, submission.hintsUsed,
                        submission.timeTaken).threw
     /\ grading[1].response.status = 200

-----------------------------------------------------------------------------
(* Parental controls in front of generation (SpecTypes) *)

\* allowedByLevel[filterLevel]?.includes(rating) ?? false
isContentAllowed(rating, filterLevel) ==
  CASE filterLevel = "strict" -> rating \in {"all-ages"}
    [] filterLevel = "moderate" -> rating \in {"all-ages", "age-8-plus"}
    [] filterLevel = "minimal" ->
         rating \in {"all-ages", "age-8-plus", "age-12-plus"}
    [] OTHER -> FALSE

FilterLevels == {"strict", "moderate", "minimal"}

\* What getSessionWithControls resolves to, with the outcome of
\* isWithinAllowedHours and of checkTimeLimit for that session: no session,
\* an adult, or a child account with its controls.
SessionUsers ==
  {[present |-> FALSE, isChild |-> FALSE, content_filter_level |-> Undefined,
    withinAllowedHours |-> TRUE, allowed |-> TRUE],
   [present |-> TRUE, isChild |-> FALSE, content_filter_level |-> Undefined,
    withinAllowedHours |-> TRUE, allowed |-> TRUE]}
  \cup [present : {TRUE}, isChild : {TRUE},
        content_filter_level : FilterLevels,
        withinAllowedHours : BOOLEAN, allowed : BOOLEAN]

\* The status the middleware answers with, or 0 when it calls next().  The
\* handler behind it is handed neither the user nor the controls: POST
\* /generate reads only c.env and the request body.
parentalControlsMiddleware(user) ==
  IF ~user.present \/ ~user.isChild THEN 0
  ELSE IF ~user.withinAllowedHours THEN 403
  ELSE IF ~user.allowed THEN 403
  ELSE 0

\* C28: a child account with content filter level L that the middleware lets
\* through never receives from POST /generate an exercise whose
\* metadata.contentRating isContentAllowed rejects for L.
C28_FilterEnforcedOnGeneration ==
  \A user \in SessionUsers :
    (user.isChild /\ parentalControlsMiddleware(user) = 0)
    => \A exercise \in Returned :
         isContentAllowed(exercise.metadata.contentRating,
                          user.content_filter_level)

-----------------------------------------------------------------------------
(* The rate limiter in front of the generation routes (SpecLimit) *)

DefaultLimit == 30
WindowMillis == 60000

\* parseInt(c.env.RATE_LIMIT_PER_MINUTE) || 30
rateLimit(e) ==
  IF parseInt(e.RATE_LIMIT_PER_MINUTE) # 0
  THEN parseInt(e.RATE_LIMIT_PER_MINUTE) ELSE DefaultLimit

\* c.req.header('CF-Connecting-IP') || 'unknown'
clientIp(header) == OrElse(header, "unknown")

\* Math.ceil(millis / 1000) for millis >= 0.
ceilSeconds(millis) == (millis + 999) \div 1000

\* A variant that rejects only once the counter has passed the limit.
rateLimitPastLimit(map, ip, at, limit) ==
  IF ip \in DOMAIN map /\ map[ip].resetAt > at
  THEN IF map[ip].count > limit
       THEN [map |-> map, status |-> 429,
             retryAfter |-> ceilSeconds(map[ip].resetAt - at)]
       ELSE [map |-> [map EXCEPT ![ip].count = @ + 1], status |-> 0,
             retryAfter |-> 0]
  ELSE [map |-> (ip :> [count |-> 1, resetAt |-> at + WindowMillis]) @@ map,
        status |-> 0, retryAfter |-> 0]

\* The middleware up to `await next()`: the map after it, and the status it
\* answers with (0 when it calls next()).
rateLimiter(map, ip, at, limit) ==
  IF ip \in DOMAIN map /\ map[ip].resetAt > at
  THEN IF map[ip].count >= limit
       THEN [map |-> map, status |-> 429,
             retryAfter |-> ceilSeconds(map[ip].resetAt - at)]
       ELSE [map |-> [map EXCEPT ![ip].count = @ + 1], status |-> 0,
             retryAfter |-> 0]
  ELSE [map |-> (ip :> [count |-> 1, resetAt |-> at + WindowMillis]) @@ map,
        status |-> 0, retryAfter |-> 0]

\* The history of one client after a request was let through at `at`: a
\* window lasts 60 seconds from the first request let through in it.
admit(history, ip, at) ==
  IF ip \in DOMAIN history /\ at < history[ip].opened + WindowMillis
  THEN [history EXCEPT ![ip].count = @ + 1]
  ELSE (ip :> [opened |-> at, count |-> 1]) @@ history

\* The values of Date.now() at which requests arrive.
Instants == {0, 1, 1000, 59001, 60000, 60001, 120000}

\* The CF-Connecting-IP header of a request.
IpHeaders == {Undefined, "", "203.0.113.7"}

LimitConfigs == {Undefined, "abc", "2"}

InitLimit ==
  /\ env \in {[e EXCEPT !.RATE_LIMIT_PER_MINUTE = x] :
                e \in {c \in EnvConfigs :
                         /\ c.AI /\ c.KV /\ c.MAX_EXERCISES_PER_REQUEST = "2"
                         /\ c.DEFAULT_MODEL = Undefined
                         /\ c.QUALITY_MODEL = Undefined},
                x \in LimitConfigs}
  /\ kv = <<>>
  /\ procs = [p \in Procs |-> IdleProc]
  /\ grading = NoGrading
  /\ hinting = NoHinting
  /\ LimiterIdle

\* A request to /generate/* reaches the middleware, which runs to its
\* return or to its call of next() without yielding.
RateLimit(header) ==
  /\ limited = NoLimited
  /\ LET ip == clientIp(header)
         outcome == rateLimiter(rateLimitMap, ip, now, rateLimit(env))
     IN  /\ rateLimitMap' = outcome.map
         /\ limited' = [ip |-> ip, status |-> outcome.status,
                        retryAfter |-> outcome.retryAfter]
         /\ admitted' = IF outcome.status = 0 THEN admit(admitted, ip, now)
                        ELSE admitted
  /\ UNCHANGED <<env, kv, procs, grading, hinting, now>>

\* The 429 goes out, or the route behind next() takes the request over.
Forward ==
  /\ limited # NoLimited
  /\ limited' = NoLimited
  /\ UNCHANGED <<env, kv, procs, grading, hinting, rateLimitMap, now, admitted>>

\* Time passes between two requests.
Tick(t) ==
  /\ limited = NoLimited
  /\ t > now
  /\ now' = t
  /\ UNCHANGED <<env, kv, procs, grading, hinting, rateLimitMap, limited, admitted>>

NextLimit ==
  \/ \E header \in IpHeaders : RateLimit(header)
  \/ Forward
  \/ \E t \in Instants : Tick(t)

SpecLimit == InitLimit /\ [][NextLimit]_vars

\* Whether the client already has a window that is still open at `at`.
InWindow(history, ip, at) ==
  ip \in DOMAIN history /\ at < history[ip].opened + WindowMillis

\* C30: no client is let through more than the limit (the configured
\* RATE_LIMIT_PER_MINUTE, 30 without one) in the 60 seconds from the first
\* request let through in a window; a request inside a window that is full is
\* answered 429 with a retryAfter of at least 1 and leaves the counters as
\* they were; a request with no open window is let through and opens a window
\* with count 1.
C30_RateLimitWindow ==
  [][\A header \in IpHeaders :
       RateLimit(header) =>
         LET ip == clientIp(header)
             limit == rateLimit(env)
         IN  /\ \A other \in DOMAIN admitted' : admitted'[other].count <= limit
             /\ (InWindow(admitted, ip, now) /\ admitted[ip].count >= limit)
                => /\ limited'.status = 429
                   /\ limited'.retryAfter >= 1
                   /\ rateLimitMap' = rateLimitMap
                   /\ admitted' = admitted
             /\ (InWindow(admitted, ip, now) /\ admitted[ip].count < limit)
                => /\ limited'.status = 0
                   /\ rateLimitMap'[ip].count = admitted[ip].count + 1
             /\ ~InWindow(admitted, ip, now)
                => /\ limited'.status = 0
                   /\ rateLimitMap'[ip] =
                        [count |-> 1, resetAt |-> now + WindowMillis]
             /\ \A other \in DOMAIN rateLimitMap \ {ip} :
                  rateLimitMap'[other] = rateLimitMap[other]]_vars

\* A client without a configured limit was let through again once its first
\* window had run out, and was turned away after 30 requests in the new one.
C30_Witness ==
  /\ limited # NoLimited
  /\ limited.status = 429
  /\ limited.retryAfter >= 1
  /\ env.RATE_LIMIT_PER_MINUTE = Undefined
  /\ admitted[limited.ip].opened >= WindowMillis
  /\ admitted[limited.ip].count = DefaultLimit

====
